---- MODULE Spec2Model ----
(***************************************************************************)
(* PAROL6 keyframe editor: the numerical IK solver with axis masking, the  *)
(* pose extractor it evaluates, and the call sites that commit its result. *)
(*                                                                         *)
(* Units: joint angles and orientations in micro-degrees, positions in     *)
(* micro-metres, so that the joint limit table is represented exactly.     *)
(* Joints 1..6 are J1..J6; axes 1..6 are X, Y, Z, RX, RY, RZ.              *)
(***************************************************************************)
EXTENDS Integers, Sequences, FiniteSets, TLC

VARIABLES
    solves,     \* per call site: the activation record of inverseKinematicsDetailed
    chain,      \* the shared KinematicChain (URDF robot): loaded flag and joint values
    prev,       \* inputs and result of the solve that returned last
    commanded,  \* commandedJointAngles / currentJointAngles
    inputPose,  \* inputCartesianPose / currentCartesianPose
    ikAxisMask,
    timeline,   \* mode, keyframes, cartesianKeyframes, duration
    playbackState,
    now,        \* Date.now(), in seconds
    playFx,     \* the interval of usePlayback with the values its closure captured
    scrubFx,    \* the dependencies the useScrubbing effect last ran with
    ikTimer,    \* the pending setTimeout of handleComputeIK with its closure
    backendReq, \* the pending request of handleComputeBackendIK
    frontendResult,
    backendResult,
    lastValidCartesianPose,
    lastSolve,  \* the solve made by the step just taken: call site and outcome
    solvedPose, \* the pose of the last solve that succeeded, when the keyboard handler
                \* or the Compute IK timer made it; <<>> before, and once a solve of the
                \* playback loop or of the scrubbing effect has succeeded after it
    matrixWorld,          \* per robot: the joint values its cached world matrices show
    commandedTcpPose,     \* stored pose of the target robot's tool point
    actualTcpPosition,    \* stored pose of the hardware robot's tool point
    lastPositionRef,      \* per visualizer: the pose it stored last
    actualRobot,          \* the ghost robot that shows the hardware feedback
    hardwareJointAngles,  \* joint angles reported by the hardware, if any
    targetFollowsActual,  \* teach mode (teachModeEnabled)
    actualFollowsTarget,  \* live control (liveControlEnabled)
    teachFx,              \* the dependencies the teach-mode effect last ran with
    liveFx,               \* the live-control hook: dependencies, debounce timer, last sent angles
    moveCommand,          \* the motion command sent to the robot last
    previewAngles,        \* the joint angles a preview playback wrote last
    prePlay               \* the usePrePlaybackPosition hook: its state, refs and invocations

ikVars == <<solves, prev>>
extVars == <<matrixWorld, commandedTcpPose, actualTcpPosition, lastPositionRef,
             actualRobot, hardwareJointAngles>>
ctlVars == <<targetFollowsActual, actualFollowsTarget, teachFx, liveFx, moveCommand,
             previewAngles, prePlay>>
appVars == <<extVars, ctlVars, commanded, inputPose, ikAxisMask, timeline, playbackState, now,
             playFx, scrubFx, ikTimer, backendReq, frontendResult,
             backendResult, lastValidCartesianPose, lastSolve,
                   solvedPose>>
vars == <<extVars, ctlVars, solves, chain, prev, commanded, inputPose, ikAxisMask, timeline,
          playbackState, now, playFx, scrubFx, ikTimer, backendReq,
          frontendResult, backendResult, lastValidCartesianPose, lastSolve,
                   solvedPose>>

----------------------------------------------------------------------------
(* Constants of the program *)

Joints == 1..6
Axes == 1..6
PositionAxes == 1..3

JOINT_LIMITS ==
    << [min |-> -123046875, max |-> 123046875],
       [min |-> -145008800, max |-> -3375000],
       [min |-> 107866000,  max |-> 287867500],
       [min |-> -105469750, max |-> 105469750],
       [min |-> -90000000,  max |-> 90000000],
       [min |-> 0,          max |-> 360000000] >>

STANDBY_POSITION == <<0, -90000000, 180000000, 0, 0, 180000000>>

\* lambda = 0.1, kept as lambda^2 in units of (percent)^2: 0.01 * 100^2
IK_DAMPING_FACTOR == 100
\* 5.0 degrees per iteration
IK_MAX_STEP_SIZE == 5000000

\* Solver parameters the specification leaves open
IK_TOLERANCE == 100000
IK_EPSILON == 10000
IK_REACH_THRESHOLD == 50000000
IK_SINGULAR_STREAK == 2

\* iteration cap of one solve
MaxIterations == 4

DEFAULT_DURATION == 10

CARTESIAN_LIMITS ==
    << [min |-> -300000000, max |-> 300000000],
       [min |-> -300000000, max |-> 300000000],
       [min |-> 0,          max |-> 500000000],
       [min |-> -180000000, max |-> 180000000],
       [min |-> -180000000, max |-> 180000000],
       [min |-> -180000000, max |-> 180000000] >>

\* the clock of the model stops here
MaxClock == 2

FullMask == [a \in Axes |-> TRUE]

----------------------------------------------------------------------------
(* Arithmetic helpers *)

Abs(x) == IF x < 0 THEN -x ELSE x

Max2(a, b) == IF a >= b THEN a ELSE b

\* Math.max(lo, Math.min(hi, x))
Clamp(lo, hi, x) == Max2(lo, IF x < hi THEN x ELSE hi)

InLimits(q) ==
    \A j \in Joints : q[j] >= JOINT_LIMITS[j].min /\ q[j] <= JOINT_LIMITS[j].max

ClampToLimits(q) ==
    [j \in Joints |-> Clamp(JOINT_LIMITS[j].min, JOINT_LIMITS[j].max, q[j])]

----------------------------------------------------------------------------
(* Pose extractor *)

\* World pose of the tool point of the chain for given joint values.  The
\* chain is an external capability; this instance maps the standby position
\* to the pose (0, 0, 300mm, 0, 0, 0), drives axis k by joint k, and loses
\* the RY degree of freedom below J5 = -45 degrees.
ChainPose(q) ==
    << q[1],
       q[2] + 90000000,
       q[3] + 120000000,
       q[4],
       IF q[5] < -45000000 THEN -45000000 ELSE q[5],
       q[6] - 180000000 >>

NoPose == [available |-> FALSE]

calculateTcpPoseFromUrdf(ch) ==
    IF ~ch.loaded \/ ~ch.l6 THEN NoPose
    ELSE [available |-> TRUE, pose |-> ChainPose(ch.angles)]

----------------------------------------------------------------------------
(* IK solver: damped least squares with axis masking *)

ZeroVec == [a \in Axes |-> 0]

NoResult == [none |-> TRUE]

IdleFrame ==
    [pc |-> "idle", phase |-> "none",
     target |-> ChainPose(STANDBY_POSITION), nonFinite |-> {},
     seed |-> STANDBY_POSITION, mask |-> FullMask,
     working |-> STANDBY_POSITION, iter |-> 0, pert |-> 0,
     base |-> ChainPose(STANDBY_POSITION), err |-> ZeroVec, jac |-> ZeroVec,
     posErr |-> 0, prevPosErr |-> 0, streak |-> 0,
     saved |-> STANDBY_POSITION, result |-> NoResult]

Terminal == {"CONVERGED", "FAILED"}

\* validation that looks at the seed only
IKValidSeedOnly(target, nonFinite, seed) ==
    DOMAIN seed = Joints

\* step 4: the target holds only finite numbers and the seed has all six joints
IKValidInput(target, nonFinite, seed) ==
    nonFinite = {} /\ DOMAIN seed = Joints

\* a solver that starts from the result of the solve before, when it has one
IKSeedWarmStart(seed) ==
    IF prev.has /\ prev.result.success THEN prev.result.jointAngles
    ELSE ClampToLimits(seed)

\* step 1: the working configuration starts at the seed; a value outside the
\* joint limits is not accepted without clamping
IKSeedWorking(seed) == ClampToLimits(seed)

\* the error with the disabled axes left in
IKUnmaskedError(target, nonFinite, pose, mask) ==
    [a \in Axes |-> IF a \notin nonFinite THEN target[a] - pose[a] ELSE 0]

\* steps b, c: target - current per axis, zero on disabled axes
IKMaskedError(target, nonFinite, pose, mask) ==
    [a \in Axes |-> IF mask[a] /\ a \notin nonFinite THEN target[a] - pose[a] ELSE 0]

\* step d: every component of the masked error is within tolerance (a
\* non-finite component compares false with everything)
IKConverged(err, nonFinite, mask) ==
    /\ \A a \in Axes : mask[a] => a \notin nonFinite
    /\ \A a \in Axes : Abs(err[a]) <= IK_TOLERANCE

IKPositionError(err) ==
    Max2(Abs(err[1]), Max2(Abs(err[2]), Abs(err[3])))

\* floor(|e| * n / d) with the sign of e * n, without leaving 32 bits
MulDiv(e, n, d) ==
    LET ae == Abs(e)
        an == Abs(n)
        m  == (ae \div d) * an + ((ae % d) * an) \div d
    IN IF (e < 0) = (n < 0) THEN m ELSE -m

\* step e: finite-difference slope of axis k in joint k, in percent
IKSlope(perturbed, base) == ((perturbed - base) * 100) \div IK_EPSILON

\* a step with the sign of the error reversed
IKDlsStepAway(J, e) == -MulDiv(e, 100 * J, J * J + IK_DAMPING_FACTOR)

\* step f: J^T (J J^T + lambda^2 I)^-1 e for the diagonal Jacobian of the
\* chain above: J e / (J^2 + lambda^2) per joint, J in percent
IKDlsStep(J, e) == MulDiv(e, 100 * J, J * J + IK_DAMPING_FACTOR)

\* step g: at most IK_MAX_STEP_SIZE per joint and iteration
IKClampStep(d) == Clamp(-IK_MAX_STEP_SIZE, IK_MAX_STEP_SIZE, d)

\* the step applied without the clamp
IKApplyStepUnclamped(working, delta) ==
    [j \in Joints |-> working[j] + delta[j]]

\* step h: apply the step, then clamp every joint to its limit
IKApplyStep(working, delta) ==
    ClampToLimits([j \in Joints |-> working[j] + delta[j]])

IKNearSingular(jac, mask) == \E a \in Axes : mask[a] /\ jac[a] = 0

\* a classification that knows no distance threshold
IKClassifyNoReach(posErr, streak) ==
    IF streak >= IK_SINGULAR_STREAK THEN "SINGULAR" ELSE "DID_NOT_CONVERGE"

\* step 3: classification of an exhausted iteration cap
IKClassify(posErr, streak) ==
    IF posErr > IK_REACH_THRESHOLD THEN "OUT_OF_REACH"
    ELSE IF streak >= IK_SINGULAR_STREAK THEN "SINGULAR"
    ELSE "DID_NOT_CONVERGE"

\* a loop that runs two iterations longer
IKCapLate(n) == n >= MaxIterations + 2

\* step 2: the loop stops after the iteration cap
IKCapReached(n) == n >= MaxIterations

IKSuccess(working, iter, posErr) ==
    [success |-> TRUE, jointAngles |-> working, iterations |-> iter, finalError |-> posErr]

IKFailure(reason, iter, posErr) ==
    [success |-> FALSE, iterations |-> iter, finalError |-> posErr,
     error |-> [message |-> reason, distance |-> posErr]]

\* the last working configuration handed out as a best effort
IKBestEffort(working, iter, posErr, streak) ==
    IKSuccess(working, iter, posErr)

\* result of a loop that exhausted its cap: always a classified failure
IKExhausted(working, iter, posErr, streak) ==
    IKFailure(IKClassify(posErr, streak), iter, posErr)

\* a return that leaves the chain as the last evaluation set it
IKLeaveChain(ch, saved) == ch

\* the chain as the solver leaves it when it returns
IKRestoreChain(ch, saved) == [ch EXCEPT !.angles = saved]

\* the call takes its inputs: SEEDED
IKCall(seed, target, nonFinite, mask, ch) ==
    [f |-> [IdleFrame EXCEPT !.pc = "SEEDED", !.target = target,
               !.nonFinite = nonFinite, !.seed = seed, !.mask = mask,
               !.saved = ch.angles,
               !.working = IF DOMAIN seed = Joints THEN IKSeedWorking(seed)
                           ELSE STANDBY_POSITION],
     ch |-> ch]

\* SEEDED -> ITERATING; step 4 is decided before the first iteration
IKEnterLoop(f, ch) ==
    [f |-> [f EXCEPT !.pc = "ITERATING",
               !.phase = IF IKValidInput(f.target, f.nonFinite, f.seed)
                         THEN "eval" ELSE "reject"],
     ch |-> ch]

\* step 4: INVALID_INPUT without an iteration
IKReject(f, ch) ==
    [f |-> [f EXCEPT !.pc = "FAILED", !.phase = "none",
               !.result = IKFailure("INVALID_INPUT", 0, 0)],
     ch |-> IKRestoreChain(ch, f.saved)]

\* steps a-d of one iteration
IKEval(f, ch) ==
    LET applied == [ch EXCEPT !.angles = f.working]
        pose    == calculateTcpPoseFromUrdf(applied).pose
        err     == IKMaskedError(f.target, f.nonFinite, pose, f.mask)
        pe      == IKPositionError(err)
    IN IF IKConverged(err, f.nonFinite, f.mask)
       THEN [f |-> [f EXCEPT !.pc = "CONVERGED", !.phase = "none",
                       !.base = pose, !.err = err,
                       !.prevPosErr = f.posErr, !.posErr = pe,
                       !.result = IKSuccess(f.working, f.iter, pe)],
             ch |-> IKRestoreChain(applied, f.saved)]
       ELSE [f |-> [f EXCEPT !.phase = "perturb", !.pert = 1,
                       !.base = pose, !.err = err,
                       !.prevPosErr = f.posErr, !.posErr = pe],
             ch |-> applied]

\* step e, first half: perturb joint f.pert by epsilon
IKPerturbJoint(f, ch) ==
    [f |-> [f EXCEPT !.phase = "measure"],
     ch |-> [ch EXCEPT !.angles[f.pert] = f.working[f.pert] + IK_EPSILON]]

\* step e, second half: re-evaluate the pose, record the slope, restore the joint
IKMeasureJoint(f, ch) ==
    LET pose == calculateTcpPoseFromUrdf(ch).pose
        k    == f.pert
        J    == IKSlope(pose[k], f.base[k])
    IN [f |-> [f EXCEPT !.jac[k] = J,
                  !.pert = IF k = 6 THEN 0 ELSE k + 1,
                  !.phase = IF k = 6 THEN "update" ELSE "perturb"],
        ch |-> [ch EXCEPT !.angles[k] = f.working[k]]]

\* steps f-h, then the next iteration or the classification of the failure
IKUpdate(f, ch) ==
    LET delta   == [j \in Joints |-> IKClampStep(IKDlsStep(f.jac[j], f.err[j]))]
        w       == IKApplyStep(f.working, delta)
        stuck   == IKNearSingular(f.jac, f.mask) /\ f.posErr >= f.prevPosErr
        streak  == IF stuck THEN f.streak + 1 ELSE 0
        n       == f.iter + 1
    IN IF IKCapReached(n)
       THEN [f |-> [f EXCEPT !.pc = "FAILED", !.phase = "none", !.working = w,
                       !.iter = n, !.streak = streak,
                       !.result = IKExhausted(w, n, f.posErr, streak)],
             ch |-> IKRestoreChain(ch, f.saved)]
       ELSE [f |-> [f EXCEPT !.phase = "eval", !.working = w, !.iter = n,
                       !.streak = streak],
             ch |-> ch]

\* one step of an activation that has not returned yet
IKStep(f, ch) ==
    IF f.pc = "SEEDED" THEN IKEnterLoop(f, ch)
    ELSE IF f.phase = "reject" THEN IKReject(f, ch)
    ELSE IF f.phase = "eval" THEN IKEval(f, ch)
    ELSE IF f.phase = "perturb" THEN IKPerturbJoint(f, ch)
    ELSE IF f.phase = "measure" THEN IKMeasureJoint(f, ch)
    ELSE IKUpdate(f, ch)

RECURSIVE IKRun(_, _)
IKRun(f, ch) ==
    IF f.pc \in Terminal THEN [f |-> f, ch |-> ch]
    ELSE LET s == IKStep(f, ch) IN IKRun(s.f, s.ch)

\* the synchronous call as its callers see it: the result and the chain afterwards
inverseKinematicsDetailed(target, seed, ch, mask) ==
    LET c == IKCall(seed, target, {}, mask, ch)
        r == IKRun(c.f, c.ch)
    IN [result |-> r.f.result, ch |-> r.ch]

----------------------------------------------------------------------------
(* Interpolation of keyframes *)

\* a + (b - a) * t with t = num / den
lerp(a, b, num, den) == a + MulDiv(b - a, num, den)

RECURSIVE InsertByTime(_, _)
InsertByTime(kf, sorted) ==
    IF sorted = <<>> THEN <<kf>>
    ELSE IF kf.time < Head(sorted).time THEN <<kf>> \o sorted
    ELSE <<Head(sorted)>> \o InsertByTime(kf, Tail(sorted))

\* Array.prototype.sort((a, b) => a.time - b.time): stable
RECURSIVE SortByTime(_)
SortByTime(kfs) ==
    IF kfs = <<>> THEN <<>>
    ELSE InsertByTime(kfs[Len(kfs)], SortByTime(SubSeq(kfs, 1, Len(kfs) - 1)))

RECURSIVE Surrounding(_, _, _)
Surrounding(kfs, time, i) ==
    IF i >= Len(kfs) THEN 1
    ELSE IF time >= kfs[i].time /\ time <= kfs[i + 1].time THEN i
    ELSE Surrounding(kfs, time, i + 1)

InterpolateTrack(track, time, defaultValue) ==
    IF track = <<>> THEN defaultValue
    ELSE IF time <= track[1].time THEN track[1].value
    ELSE IF time >= track[Len(track)].time THEN track[Len(track)].value
    ELSE LET i      == Surrounding(track, time, 1)
             before == track[i]
             after  == track[i + 1]
             dur    == after.time - before.time
         IN IF dur > 0 THEN lerp(before.value, after.value, time - before.time, dur)
            ELSE before.value

getJointValueAtTime(keyframes, joint, time) ==
    InterpolateTrack(SortByTime(SelectSeq(keyframes, LAMBDA kf : kf.joint = joint)),
                     time, STANDBY_POSITION[joint])

getJointAnglesAtTime(keyframes, time) ==
    [j \in Joints |-> getJointValueAtTime(keyframes, j, time)]

DefaultPose == <<0, 0, 300000000, 0, 0, 0>>

getCartesianValueAtTime(keyframes, axis, time, defaultValue) ==
    InterpolateTrack(SortByTime(SelectSeq(keyframes, LAMBDA kf : kf.axis = axis)),
                     time, defaultValue)

getCartesianPoseAtTime(keyframes, time) ==
    [a \in Axes |-> getCartesianValueAtTime(keyframes, a, time, DefaultPose[a])]

----------------------------------------------------------------------------
(* State of the stores and of the hooks *)

EmptyTimeline ==
    [mode |-> "joint", keyframes |-> <<>>, cartesianKeyframes |-> <<>>,
     duration |-> DEFAULT_DURATION]

StoppedPlayback ==
    [isPlaying |-> FALSE, currentTime |-> 0, hasStartTime |-> FALSE, startTime |-> 0,
     executeOnRobot |-> FALSE]

\* dependency list of the usePlayback effect
PlaybackDeps ==
    <<playbackState.isPlaying, playbackState.hasStartTime, playbackState.startTime,
      timeline.duration, timeline.mode, timeline.keyframes, timeline.cartesianKeyframes>>

\* dependency list of the useScrubbing effect
ScrubbingDeps ==
    <<playbackState.currentTime, timeline.keyframes, timeline.cartesianKeyframes,
      timeline.mode, playbackState.isPlaying>>

NoInterval ==
    [on |-> FALSE, deps |-> <<>>,
     startTime |-> 0, duration |-> DEFAULT_DURATION, mode |-> "joint",
     keyframes |-> <<>>, cartesianKeyframes |-> <<>>,
     currentJointAngles |-> STANDBY_POSITION, urdfRobotRef |-> FALSE,
     ikAxisMask |-> FullMask]

NoTimer ==
    [pending |-> FALSE, pose |-> DefaultPose, joints |-> STANDBY_POSITION,
     mask |-> FullMask]

NoSolve == [site |-> "none", success |-> FALSE]

\* what a run of the teach-mode effect depends on: with teach mode off a
\* run does nothing, whatever the hardware reports
TeachDeps ==
    IF targetFollowsActual THEN <<TRUE, hardwareJointAngles>> ELSE <<FALSE>>

\* what a run of the live-control effects depends on: with live control
\* off a run sets no timer, whatever the joint angles are
LiveDeps ==
    IF actualFollowsTarget THEN <<TRUE, commanded, playbackState.isPlaying>>
    ELSE <<FALSE>>

\* the effects of the control modes have run for the state as it is
ControlFlushed == teachFx = TeachDeps /\ liveFx.deps = LiveDeps

\* the live-control hook after its first run with live control off: no
\* debounce timer, no angles sent yet
NoLiveControl ==
    [deps |-> <<FALSE>>, pending |-> FALSE, setAt |-> 0, angles |-> <<>>,
     lastSentAngles |-> <<>>]

\* no motion command has been sent
NoCommand == [flip |-> FALSE, angles |-> <<>>]

\* the stores as created, the axis mask being the one the store starts with
\* invocations of moveToStartAndPlay the model follows
MaxCalls == 2

\* an invocation of moveToStartAndPlay: where it stands, the start position it
\* computed, its own interval and timer, and what it has done so far
NoCall ==
    [phase |-> "none", targetPosition |-> <<>>, poll |-> FALSE, timeout |-> FALSE,
     outcomes |-> <<>>]

NoPrePlay ==
    [isMovingToStart |-> FALSE, moveError |-> "", pollIntervalRef |-> 0,
     timeoutRef |-> 0, calls |-> [k \in 1..MaxCalls |-> NoCall]]

InitStores(mask) ==
    /\ commanded = STANDBY_POSITION
    /\ inputPose = DefaultPose
    /\ ikAxisMask = mask
    /\ timeline = EmptyTimeline
    /\ playbackState = StoppedPlayback
    /\ now = 0
    /\ playFx = NoInterval
    /\ scrubFx = <<>>
    /\ ikTimer = NoTimer
    /\ backendReq = FALSE
    /\ frontendResult = NoResult
    /\ backendResult = NoResult
    /\ lastValidCartesianPose = DefaultPose
    /\ lastSolve = NoSolve
    /\ solvedPose = <<>>
    /\ matrixWorld = [r \in {"target", "actual"} |-> STANDBY_POSITION]
    /\ commandedTcpPose = NoPose
    /\ actualTcpPosition = NoPose
    /\ lastPositionRef = [v \in {"target", "actual"} |-> NoPose]
    /\ actualRobot = [loaded |-> FALSE, l6 |-> TRUE, angles |-> STANDBY_POSITION]
    /\ hardwareJointAngles = <<>>
    /\ targetFollowsActual = FALSE
    /\ actualFollowsTarget = FALSE
    /\ teachFx = <<FALSE>>
    /\ liveFx = NoLiveControl
    /\ moveCommand = NoCommand
    /\ previewAngles = <<>>
    /\ prePlay = NoPrePlay

InitApp == InitStores(FullMask)

----------------------------------------------------------------------------
(* Handlers, effects and timers *)

\* the effects of a render run before the next task: no effect has a stale
\* dependency list and the robot shows the commanded joint values
EffectsFlushed ==
    /\ playFx.deps = PlaybackDeps
    /\ scrubFx = ScrubbingDeps
    /\ chain.loaded => chain.angles = commanded
    /\ ControlFlushed

\* a caller that falls back to the standby position when the solve failed
CommitIKOrReset(result, current) ==
    IF result.success /\ "jointAngles" \in DOMAIN result
    THEN result.jointAngles ELSE STANDBY_POSITION

\* if (ikResult.success && ikResult.jointAngles) set the joint angles
CommitIK(result, current) ==
    IF result.success /\ "jointAngles" \in DOMAIN result
    THEN result.jointAngles ELSE current

\* the step just taken has made no solve
NoSolveMade == lastSolve' = NoSolve /\ solvedPose' = solvedPose

\* the solve that the step just taken has made, and the pose it solved
Solved(site, result, mask, pose) ==
    /\ lastSolve' = [site |-> site, success |-> result.success, mask |-> mask]
    /\ solvedPose' =
         IF ~(result.success /\ "jointAngles" \in DOMAIN result) THEN solvedPose
         ELSE IF site \in {"key", "timer"} THEN pose
         ELSE <<>>

\* the URDF loader delivers the robot
LoadRobot ==
    /\ UNCHANGED ctlVars
    /\ EffectsFlushed
    /\ ~chain.loaded
    /\ chain' = [chain EXCEPT !.loaded = TRUE, !.angles = commanded]
    /\ matrixWorld' = [matrixWorld EXCEPT !.target = commanded]
    /\ UNCHANGED <<commandedTcpPose, actualTcpPosition, lastPositionRef, actualRobot,
                   hardwareJointAngles>>
    /\ UNCHANGED <<solves, prev, commanded, inputPose, ikAxisMask, timeline,
                   playbackState, now, playFx, scrubFx, ikTimer, backendReq,
                   frontendResult, backendResult, lastValidCartesianPose>>
    /\ NoSolveMade

\* effect of RobotViewer: write the commanded joint values into the robot
RenderCommanded ==
    /\ UNCHANGED <<extVars, ctlVars>>
    /\ chain.loaded
    /\ chain.angles # commanded
    /\ chain' = [chain EXCEPT !.angles = commanded]
    /\ UNCHANGED <<solves, prev, commanded, inputPose, ikAxisMask, timeline,
                   playbackState, now, playFx, scrubFx, ikTimer, backendReq,
                   frontendResult, backendResult, lastValidCartesianPose>>
    /\ NoSolveMade

CartesianInputs == {<<5, 10000000>>, <<1, 126000000>>}

JointInputs == {<<1, 120000000>>}

\* handleSliderChange: setCartesianValue and reset of the shown IK results
handleSliderChange(axis, value) ==
    /\ UNCHANGED <<extVars, ctlVars>>
    /\ EffectsFlushed
    /\ inputPose' = [inputPose EXCEPT ![axis] = value]
    /\ frontendResult' = NoResult
    /\ backendResult' = NoResult
    /\ UNCHANGED <<solves, chain, prev, commanded, ikAxisMask, timeline, playbackState,
                   now, playFx, scrubFx, ikTimer, backendReq, lastValidCartesianPose>>
    /\ NoSolveMade

\* a joint slider that writes the hardware feedback as well (not the code)
setJointAngleAndFeedback(joint, angle) ==
    /\ UNCHANGED <<matrixWorld, commandedTcpPose, actualTcpPosition, lastPositionRef,
                   actualRobot, ctlVars>>
    /\ EffectsFlushed
    /\ commanded' = [commanded EXCEPT ![joint] = angle]
    /\ hardwareJointAngles' = commanded'
    /\ UNCHANGED <<solves, chain, prev, inputPose, ikAxisMask, timeline, playbackState,
                   now, playFx, scrubFx, ikTimer, backendReq, frontendResult,
                   backendResult, lastValidCartesianPose>>
    /\ NoSolveMade

setJointAngle(joint, angle) ==
    /\ UNCHANGED <<extVars, ctlVars>>
    /\ EffectsFlushed
    /\ commanded' = [commanded EXCEPT ![joint] = angle]
    /\ UNCHANGED <<solves, chain, prev, inputPose, ikAxisMask, timeline, playbackState,
                   now, playFx, scrubFx, ikTimer, backendReq, frontendResult,
                   backendResult, lastValidCartesianPose>>
    /\ NoSolveMade

setIkAxisMask(mask) ==
    /\ UNCHANGED <<extVars, ctlVars>>
    /\ EffectsFlushed
    /\ mask # ikAxisMask
    /\ ikAxisMask' = mask
    /\ UNCHANGED <<solves, chain, prev, commanded, inputPose, timeline, playbackState,
                   now, playFx, scrubFx, ikTimer, backendReq, frontendResult,
                   backendResult, lastValidCartesianPose>>
    /\ NoSolveMade

\* timelines a user may import
SampleTimelines ==
    { [mode |-> "cartesian", keyframes |-> <<>>, duration |-> 2,
       cartesianKeyframes |->
         << [id |-> 1, time |-> 0, axis |-> 5, value |-> 0],
            [id |-> 2, time |-> 2, axis |-> 5, value |-> 10000000] >>],
      [mode |-> "cartesian", keyframes |-> <<>>, duration |-> 2,
       cartesianKeyframes |->
         << [id |-> 1, time |-> 0, axis |-> 1, value |-> 0],
            [id |-> 2, time |-> 1, axis |-> 1, value |-> 126000000] >>],
      [mode |-> "joint", cartesianKeyframes |-> <<>>, duration |-> 2,
       keyframes |->
         << [id |-> 1, time |-> 0, joint |-> 1, value |-> 0],
            [id |-> 2, time |-> 2, joint |-> 1, value |-> 120000000] >>] }

loadTimeline(tl) ==
    /\ UNCHANGED <<extVars, ctlVars>>
    /\ EffectsFlushed
    /\ timeline' = tl
    /\ UNCHANGED <<solves, chain, prev, commanded, inputPose, ikAxisMask, playbackState,
                   now, playFx, scrubFx, ikTimer, backendReq, frontendResult,
                   backendResult, lastValidCartesianPose>>
    /\ NoSolveMade

\* a mode switch that clears the other list and leaves the playback state
\* alone (not the code)
setMotionModeKeepsPlayback(mode) ==
    /\ UNCHANGED <<extVars, ctlVars>>
    /\ EffectsFlushed
    /\ mode # timeline.mode
    /\ timeline' = [timeline EXCEPT
                      !.mode = mode,
                      !.keyframes = IF mode = "joint" THEN @ ELSE <<>>,
                      !.cartesianKeyframes = IF mode = "cartesian" THEN @ ELSE <<>>]
    /\ UNCHANGED <<solves, chain, prev, commanded, inputPose, ikAxisMask, playbackState,
                   now, playFx, scrubFx, ikTimer, backendReq, frontendResult,
                   backendResult, lastValidCartesianPose>>
    /\ NoSolveMade

setMotionMode(mode) ==
    /\ UNCHANGED <<extVars, ctlVars>>
    /\ EffectsFlushed
    /\ mode # timeline.mode
    /\ timeline' = [timeline EXCEPT
                      !.mode = mode,
                      !.keyframes = IF mode = "joint" THEN @ ELSE <<>>,
                      !.cartesianKeyframes = IF mode = "cartesian" THEN @ ELSE <<>>]
    /\ playbackState' = StoppedPlayback
    /\ UNCHANGED <<solves, chain, prev, commanded, inputPose, ikAxisMask,
                   now, playFx, scrubFx, ikTimer, backendReq, frontendResult,
                   backendResult, lastValidCartesianPose>>
    /\ NoSolveMade

\* the playhead is dragged
setCurrentTime(time) ==
    /\ UNCHANGED <<extVars, ctlVars>>
    /\ EffectsFlushed
    /\ time # playbackState.currentTime
    /\ playbackState' = [playbackState EXCEPT !.currentTime = time]
    /\ UNCHANGED <<solves, chain, prev, commanded, inputPose, ikAxisMask, timeline,
                   now, playFx, scrubFx, ikTimer, backendReq, frontendResult,
                   backendResult, lastValidCartesianPose>>
    /\ NoSolveMade

\* a play that always starts the clock of the playback at 0 (not the code)
playFromStart(executeOnRobot) ==
    /\ UNCHANGED <<extVars, ctlVars>>
    /\ EffectsFlushed
    /\ ~playbackState.isPlaying
    /\ playbackState' = [playbackState EXCEPT
                           !.isPlaying = TRUE, !.hasStartTime = TRUE,
                           !.executeOnRobot = executeOnRobot,
                           !.startTime = now]
    /\ UNCHANGED <<solves, chain, prev, commanded, inputPose, ikAxisMask, timeline,
                   now, playFx, scrubFx, ikTimer, backendReq, frontendResult,
                   backendResult, lastValidCartesianPose>>
    /\ NoSolveMade

play(executeOnRobot) ==
    /\ UNCHANGED <<extVars, ctlVars>>
    /\ EffectsFlushed
    /\ ~playbackState.isPlaying
    /\ playbackState' = [playbackState EXCEPT
                           !.isPlaying = TRUE, !.hasStartTime = TRUE,
                           !.executeOnRobot = executeOnRobot,
                           !.startTime = now - playbackState.currentTime]
    /\ UNCHANGED <<solves, chain, prev, commanded, inputPose, ikAxisMask, timeline,
                   now, playFx, scrubFx, ikTimer, backendReq, frontendResult,
                   backendResult, lastValidCartesianPose>>
    /\ NoSolveMade

pause ==
    /\ UNCHANGED <<extVars, ctlVars>>
    /\ EffectsFlushed
    /\ playbackState.isPlaying
    /\ playbackState' = [playbackState EXCEPT !.isPlaying = FALSE]
    /\ UNCHANGED <<solves, chain, prev, commanded, inputPose, ikAxisMask, timeline,
                   now, playFx, scrubFx, ikTimer, backendReq, frontendResult,
                   backendResult, lastValidCartesianPose>>
    /\ NoSolveMade

\* a stop that only halts and keeps the playhead (not the code)
stopKeepsPlayhead ==
    /\ UNCHANGED <<extVars, ctlVars>>
    /\ EffectsFlushed
    /\ playbackState # StoppedPlayback
    /\ playbackState' = [playbackState EXCEPT !.isPlaying = FALSE]
    /\ UNCHANGED <<solves, chain, prev, commanded, inputPose, ikAxisMask, timeline,
                   now, playFx, scrubFx, ikTimer, backendReq, frontendResult,
                   backendResult, lastValidCartesianPose>>
    /\ NoSolveMade

stop ==
    /\ UNCHANGED <<extVars, ctlVars>>
    /\ EffectsFlushed
    /\ playbackState # StoppedPlayback
    /\ playbackState' = StoppedPlayback
    /\ UNCHANGED <<solves, chain, prev, commanded, inputPose, ikAxisMask, timeline,
                   now, playFx, scrubFx, ikTimer, backendReq, frontendResult,
                   backendResult, lastValidCartesianPose>>
    /\ NoSolveMade

ClockAdvance ==
    /\ UNCHANGED <<extVars, ctlVars>>
    /\ EffectsFlushed
    /\ now < MaxClock
    /\ now' = now + 1
    /\ UNCHANGED <<solves, chain, prev, commanded, inputPose, ikAxisMask, timeline,
                   playbackState, playFx, scrubFx, ikTimer, backendReq, frontendResult,
                   backendResult, lastValidCartesianPose>>
    /\ NoSolveMade

\* a usePlayback effect without its cleanup: the interval of the previous
\* render is left running (not the code)
PlaybackEffectNoCleanup ==
    /\ UNCHANGED <<extVars, ctlVars>>
    /\ playFx.deps # PlaybackDeps
    /\ playFx' =
         IF playbackState.isPlaying /\ playbackState.hasStartTime
         THEN [on |-> TRUE, deps |-> PlaybackDeps,
               startTime |-> playbackState.startTime,
               duration |-> timeline.duration, mode |-> timeline.mode,
               keyframes |-> timeline.keyframes,
               cartesianKeyframes |-> timeline.cartesianKeyframes,
               currentJointAngles |-> commanded, urdfRobotRef |-> chain.loaded,
               ikAxisMask |-> ikAxisMask]
         ELSE [playFx EXCEPT !.deps = PlaybackDeps]
    /\ UNCHANGED <<solves, chain, prev, commanded, inputPose, ikAxisMask, timeline,
                   playbackState, now, scrubFx, ikTimer, backendReq, frontendResult,
                   backendResult, lastValidCartesianPose>>
    /\ NoSolveMade

\* the usePlayback effect runs again when a dependency changed: the old
\* interval is cleared, a new one captures the values of this render
PlaybackEffect ==
    /\ UNCHANGED <<extVars, ctlVars>>
    /\ playFx.deps # PlaybackDeps
    /\ playFx' =
         IF playbackState.isPlaying /\ playbackState.hasStartTime
         THEN [on |-> TRUE, deps |-> PlaybackDeps,
               startTime |-> playbackState.startTime,
               duration |-> timeline.duration, mode |-> timeline.mode,
               keyframes |-> timeline.keyframes,
               cartesianKeyframes |-> timeline.cartesianKeyframes,
               currentJointAngles |-> commanded, urdfRobotRef |-> chain.loaded,
               ikAxisMask |-> ikAxisMask]
         ELSE [NoInterval EXCEPT !.deps = PlaybackDeps]
    /\ UNCHANGED <<solves, chain, prev, commanded, inputPose, ikAxisMask, timeline,
                   playbackState, now, scrubFx, ikTimer, backendReq, frontendResult,
                   backendResult, lastValidCartesianPose>>
    /\ NoSolveMade

\* a tick that never compares the elapsed time with the duration (not the code)
PlaybackTickNoEnd ==
    /\ UNCHANGED <<extVars, targetFollowsActual, actualFollowsTarget, teachFx, liveFx,
                   moveCommand, prePlay>>
    /\ EffectsFlushed
    /\ playFx.on
    /\ LET elapsed == now - playFx.startTime
       IN IF FALSE
          THEN /\ playbackState' = StoppedPlayback
               /\ UNCHANGED <<chain, commanded, inputPose>> /\ NoSolveMade
          ELSE /\ playbackState' = [playbackState EXCEPT !.currentTime = elapsed]
               /\ IF playFx.mode = "joint"
                  THEN /\ commanded' = getJointAnglesAtTime(playFx.keyframes, elapsed)
                       /\ UNCHANGED <<chain, inputPose>> /\ NoSolveMade
                  ELSE LET pose == getCartesianPoseAtTime(playFx.cartesianKeyframes, elapsed)
                       IN /\ inputPose' = pose
                          /\ IF playFx.urdfRobotRef
                             THEN \E ik \in {inverseKinematicsDetailed(
                                              pose, playFx.currentJointAngles, chain,
                                              playFx.ikAxisMask)} :
                                     /\ commanded' = CommitIK(ik.result, commanded)
                                     /\ chain' = ik.ch
                                     /\ Solved("tick", ik.result, playFx.ikAxisMask, pose)
                             ELSE UNCHANGED <<chain, commanded>> /\ NoSolveMade
    /\ UNCHANGED <<solves, prev, ikAxisMask, timeline, now, playFx, scrubFx, ikTimer,
                   backendReq, frontendResult, backendResult, lastValidCartesianPose>>
    /\ previewAngles' = IF commanded' = commanded THEN previewAngles
                        ELSE IF playbackState.executeOnRobot THEN <<>>
                        ELSE commanded'

\* one tick of the interval of usePlayback
PlaybackTick ==
    /\ UNCHANGED <<extVars, targetFollowsActual, actualFollowsTarget, teachFx, liveFx,
                   moveCommand, prePlay>>
    /\ EffectsFlushed
    /\ playFx.on
    /\ LET elapsed == now - playFx.startTime
       IN IF elapsed >= playFx.duration
          THEN /\ playbackState' = StoppedPlayback
               /\ UNCHANGED <<chain, commanded, inputPose>> /\ NoSolveMade
          ELSE /\ playbackState' = [playbackState EXCEPT !.currentTime = elapsed]
               /\ IF playFx.mode = "joint"
                  THEN /\ commanded' = getJointAnglesAtTime(playFx.keyframes, elapsed)
                       /\ UNCHANGED <<chain, inputPose>> /\ NoSolveMade
                  ELSE LET pose == getCartesianPoseAtTime(playFx.cartesianKeyframes, elapsed)
                       IN /\ inputPose' = pose
                          /\ IF playFx.urdfRobotRef
                             THEN \E ik \in {inverseKinematicsDetailed(
                                              pose, playFx.currentJointAngles, chain,
                                              playFx.ikAxisMask)} :
                                     /\ commanded' = CommitIK(ik.result, commanded)
                                     /\ chain' = ik.ch
                                     /\ Solved("tick", ik.result, playFx.ikAxisMask, pose)
                             ELSE UNCHANGED <<chain, commanded>> /\ NoSolveMade
    /\ UNCHANGED <<solves, prev, ikAxisMask, timeline, now, playFx, scrubFx, ikTimer,
                   backendReq, frontendResult, backendResult, lastValidCartesianPose>>
    /\ previewAngles' = IF commanded' = commanded THEN previewAngles
                        ELSE IF playbackState.executeOnRobot THEN <<>>
                        ELSE commanded'

\* a scrubbing effect without the check of isPlaying (not the code)
ScrubEffectWhilePlaying ==
    /\ UNCHANGED <<extVars, ctlVars>>
    /\ scrubFx # ScrubbingDeps
    /\ scrubFx' = ScrubbingDeps
    /\ IF timeline.mode = "joint"
       THEN /\ commanded' = getJointAnglesAtTime(timeline.keyframes,
                                                  playbackState.currentTime)
            /\ UNCHANGED <<chain, inputPose>> /\ NoSolveMade
       ELSE LET pose == getCartesianPoseAtTime(timeline.cartesianKeyframes,
                                               playbackState.currentTime)
            IN /\ inputPose' = pose
               /\ IF chain.loaded
                  THEN \E ik \in {inverseKinematicsDetailed(pose, commanded, chain,
                                                            ikAxisMask)} :
                          /\ commanded' = CommitIK(ik.result, commanded)
                          /\ chain' = ik.ch
                          /\ Solved("scrub", ik.result, ikAxisMask, pose)
                  ELSE UNCHANGED <<chain, commanded>> /\ NoSolveMade
    /\ UNCHANGED <<solves, prev, ikAxisMask, timeline, playbackState, now, playFx,
                   ikTimer, backendReq, frontendResult, backendResult,
                   lastValidCartesianPose>>

\* the useScrubbing effect
ScrubEffect ==
    /\ UNCHANGED <<extVars, ctlVars>>
    /\ scrubFx # ScrubbingDeps
    /\ scrubFx' = ScrubbingDeps
    /\ IF playbackState.isPlaying
       THEN UNCHANGED <<chain, commanded, inputPose>> /\ NoSolveMade
       ELSE IF timeline.mode = "joint"
       THEN /\ commanded' = getJointAnglesAtTime(timeline.keyframes,
                                                  playbackState.currentTime)
            /\ UNCHANGED <<chain, inputPose>> /\ NoSolveMade
       ELSE LET pose == getCartesianPoseAtTime(timeline.cartesianKeyframes,
                                               playbackState.currentTime)
            IN /\ inputPose' = pose
               /\ IF chain.loaded
                  THEN \E ik \in {inverseKinematicsDetailed(pose, commanded, chain,
                                                            ikAxisMask)} :
                          /\ commanded' = CommitIK(ik.result, commanded)
                          /\ chain' = ik.ch
                          /\ Solved("scrub", ik.result, ikAxisMask, pose)
                  ELSE UNCHANGED <<chain, commanded>> /\ NoSolveMade
    /\ UNCHANGED <<solves, prev, ikAxisMask, timeline, playbackState, now, playFx,
                   ikTimer, backendReq, frontendResult, backendResult,
                   lastValidCartesianPose>>

\* key steps: normal on RY
KeySteps == {<<5, 5000000>>}

\* key steps are taken within this many steps of the default pose
MaxKeySteps == 1

\* handleKeyDown of RobotViewer, cartesian mode
KeyCartesianStep(axis, direction, step) ==
    /\ UNCHANGED <<extVars, ctlVars>>
    /\ EffectsFlushed
    /\ timeline.mode = "cartesian"
    /\ LET newValue == inputPose[axis] + direction * step
           clamped  == Clamp(CARTESIAN_LIMITS[axis].min, CARTESIAN_LIMITS[axis].max,
                             newValue)
           newPose  == [inputPose EXCEPT ![axis] = clamped]
       IN /\ Abs(clamped - DefaultPose[axis]) <= MaxKeySteps * step
          /\ IF ~chain.loaded
             THEN /\ inputPose' = newPose
                  /\ UNCHANGED <<chain, commanded, lastValidCartesianPose>> /\ NoSolveMade
             ELSE \E ik \in {inverseKinematicsDetailed(newPose, commanded, chain,
                                                       ikAxisMask)} :
                     /\ chain' = ik.ch
                     /\ Solved("key", ik.result, ikAxisMask, newPose)
                     /\ commanded' = CommitIK(ik.result, commanded)
                     /\ IF ik.result.success /\ "jointAngles" \in DOMAIN ik.result
                        THEN /\ inputPose' = newPose
                             /\ lastValidCartesianPose' = newPose
                        ELSE /\ inputPose' = lastValidCartesianPose
                             /\ UNCHANGED lastValidCartesianPose
    /\ UNCHANGED <<solves, prev, ikAxisMask, timeline, playbackState, now, playFx,
                   scrubFx, ikTimer, backendReq, frontendResult, backendResult>>

\* handleComputeIK: the click starts a 50 ms timer
handleComputeIK ==
    /\ UNCHANGED <<extVars, ctlVars>>
    /\ EffectsFlushed
    /\ ~ikTimer.pending
    /\ chain.loaded
    /\ ikTimer' = [pending |-> TRUE, pose |-> inputPose, joints |-> commanded,
                   mask |-> ikAxisMask]
    /\ UNCHANGED <<solves, chain, prev, commanded, inputPose, ikAxisMask, timeline,
                   playbackState, now, playFx, scrubFx, backendReq, frontendResult,
                   backendResult, lastValidCartesianPose>>
    /\ NoSolveMade

\* the IKResult that handleComputeIK stores for the comparison panel
FrontendIKResult(r) ==
    IF r.success /\ "jointAngles" \in DOMAIN r
    THEN [success |-> TRUE, joints |-> r.jointAngles, iterations |-> r.iterations,
          source |-> "frontend"]
    ELSE [success |-> FALSE,
          error |-> IF "error" \in DOMAIN r THEN r.error.message ELSE "IK failed",
          iterations |-> r.iterations, source |-> "frontend"]

\* the timer of handleComputeIK fires
ComputeIKTimer ==
    /\ UNCHANGED <<extVars, ctlVars>>
    /\ EffectsFlushed
    /\ ikTimer.pending
    /\ \E ik \in {inverseKinematicsDetailed(ikTimer.pose, ikTimer.joints, chain,
                                            ikTimer.mask)} :
          /\ commanded' = CommitIK(ik.result, commanded)
          /\ chain' = ik.ch
          /\ frontendResult' = FrontendIKResult(ik.result)
          /\ Solved("timer", ik.result, ikTimer.mask, ikTimer.pose)
    /\ ikTimer' = NoTimer
    /\ UNCHANGED <<solves, prev, inputPose, ikAxisMask, timeline, playbackState, now,
                   playFx, scrubFx, backendReq, backendResult, lastValidCartesianPose>>

BackendJoints == <<10000000, -90000000, 180000000, 0, 0, 180000000>>

\* what the request to /api/ik may end in
BackendResponses ==
    { [kind |-> "ok", data |-> [success |-> TRUE, joints |-> BackendJoints,
                                iterations |-> 3, residual |-> 0]],
      [kind |-> "ok", data |-> [success |-> TRUE, iterations |-> 3]],
      [kind |-> "ok", data |-> [success |-> FALSE, joints |-> BackendJoints,
                                iterations |-> 9]],
      [kind |-> "http_error"],
      [kind |-> "network_error"] }

\* the response body handed on as it came
solveIKBackendRaw(resp) ==
    IF resp.kind = "ok" THEN resp.data
    ELSE [success |-> FALSE, error |-> "Failed to fetch", source |-> "backend"]

\* the value solveIKBackend resolves to
solveIKBackend(resp) ==
    IF resp.kind = "ok"
    THEN IF resp.data.success /\ "joints" \in DOMAIN resp.data
         THEN [success |-> TRUE, joints |-> resp.data.joints,
               iterations |-> resp.data.iterations, source |-> "backend"]
         ELSE [success |-> FALSE,
               error |-> IF "error" \in DOMAIN resp.data THEN resp.data.error
                         ELSE "IK solution failed",
               iterations |-> resp.data.iterations, source |-> "backend"]
    ELSE [success |-> FALSE,
          error |-> IF resp.kind = "http_error" THEN "Backend IK request failed"
                    ELSE "Failed to fetch",
          source |-> "backend"]

\* handleComputeBackendIK up to its await
handleComputeBackendIK ==
    /\ UNCHANGED <<extVars, ctlVars>>
    /\ EffectsFlushed
    /\ ~backendReq
    /\ backendReq' = TRUE
    /\ UNCHANGED <<solves, chain, prev, commanded, inputPose, ikAxisMask, timeline,
                   playbackState, now, playFx, scrubFx, ikTimer, frontendResult,
                   backendResult, lastValidCartesianPose>>
    /\ NoSolveMade

\* handleComputeBackendIK after its await
BackendIKResolved(resp) ==
    /\ UNCHANGED <<extVars, ctlVars>>
    /\ EffectsFlushed
    /\ backendReq
    /\ backendReq' = FALSE
    /\ LET result == solveIKBackend(resp)
       IN /\ backendResult' = result
          /\ commanded' = IF result.success /\ "joints" \in DOMAIN result
                          THEN result.joints ELSE commanded
    /\ UNCHANGED <<solves, chain, prev, inputPose, ikAxisMask, timeline, playbackState,
                   now, playFx, scrubFx, ikTimer, frontendResult,
                   lastValidCartesianPose>>
    /\ NoSolveMade

Init ==
    /\ solves = [s \in {"tick", "scrub", "key", "timer"} |-> IdleFrame]
    /\ chain = [loaded |-> FALSE, l6 |-> TRUE, angles |-> STANDBY_POSITION]
    /\ prev = [has |-> FALSE, inputs |-> <<>>, result |-> NoResult]
    /\ InitApp

\* the timeline: import, mode, playhead, playback, scrubbing
Next ==
    \/ LoadRobot
    \/ RenderCommanded
    \/ \E tl \in SampleTimelines : loadTimeline(tl)
    \/ \E mode \in {"joint", "cartesian"} : setMotionMode(mode)
    \/ \E time \in {1} : setCurrentTime(time)
    \/ \E executeOnRobot \in BOOLEAN : play(executeOnRobot)
    \/ pause
    \/ stop
    \/ ClockAdvance
    \/ PlaybackEffect
    \/ PlaybackTick
    \/ ScrubEffect

Spec == Init /\ [][Next]_vars

\* the playback controls: import, playhead, play, pause, stop, the loop and scrubbing
NextPlayback ==
    \/ LoadRobot
    \/ RenderCommanded
    \/ \E tl \in SampleTimelines : loadTimeline(tl)
    \/ \E time \in {1} : setCurrentTime(time)
    \/ \E executeOnRobot \in BOOLEAN : play(executeOnRobot)
    \/ pause
    \/ stop
    \/ ClockAdvance
    \/ PlaybackEffect
    \/ PlaybackTick
    \/ ScrubEffect

SpecPlayback == Init /\ [][NextPlayback]_vars

\* play() pressed while the model clock leaves room for the whole timeline
playWithinClock(executeOnRobot) ==
    /\ now - playbackState.currentTime + timeline.duration <= MaxClock
    /\ play(executeOnRobot)

\* a playback left alone, before the robot model has loaded (a cartesian
\* tick then writes the pose only): the user imports, moves the playhead and
\* presses play only while nothing is playing; the clock, the interval and
\* the effects run on their own
NextRun ==
    \/ \E tl \in SampleTimelines : ~playbackState.isPlaying /\ loadTimeline(tl)
    \/ \E time \in {1} : ~playbackState.isPlaying /\ setCurrentTime(time)
    \/ \E executeOnRobot \in BOOLEAN : playWithinClock(executeOnRobot)
    \/ ClockAdvance
    \/ PlaybackEffect
    \/ PlaybackTick
    \/ ScrubEffect

\* time passes, the interval keeps firing and React runs the pending effects
SpecRun ==
    /\ Init /\ [][NextRun]_vars
    /\ WF_vars(ClockAdvance)
    /\ WF_vars(PlaybackTick)
    /\ WF_vars(PlaybackEffect)
    /\ WF_vars(ScrubEffect)

\* the cartesian control panel: sliders, axis mask, Compute IK, backend IK
NextPanel ==
    \/ LoadRobot
    \/ RenderCommanded
    \/ \E in \in CartesianInputs : handleSliderChange(in[1], in[2])
    \/ \E in \in JointInputs : setJointAngle(in[1], in[2])
    \/ \E mask \in {FullMask, [a \in Axes |-> a \in PositionAxes]} : setIkAxisMask(mask)
    \/ PlaybackEffect
    \/ ScrubEffect
    \/ handleComputeIK
    \/ ComputeIKTimer
    \/ handleComputeBackendIK
    \/ \E resp \in BackendResponses : BackendIKResolved(resp)

SpecPanel == Init /\ [][NextPanel]_vars

\* keyboard control in cartesian mode
NextKeyboard ==
    \/ LoadRobot
    \/ RenderCommanded
    \/ \E in \in CartesianInputs : handleSliderChange(in[1], in[2])
    \/ \E mode \in {"joint", "cartesian"} : setMotionMode(mode)
    \/ PlaybackEffect
    \/ ScrubEffect
    \/ \E ks \in KeySteps, direction \in {1, -1} : KeyCartesianStep(ks[1], direction, ks[2])

SpecKeyboard == Init /\ [][NextKeyboard]_vars

\* the keyboard next to the cartesian panel: sliders, Compute IK, key steps
NextKeyPanel ==
    \/ LoadRobot
    \/ RenderCommanded
    \/ \E in \in CartesianInputs : handleSliderChange(in[1], in[2])
    \/ \E mode \in {"joint", "cartesian"} : setMotionMode(mode)
    \/ PlaybackEffect
    \/ ScrubEffect
    \/ handleComputeIK
    \/ ComputeIKTimer
    \/ \E ks \in KeySteps, direction \in {1, -1} : KeyCartesianStep(ks[1], direction, ks[2])

SpecKeyPanel == Init /\ [][NextKeyPanel]_vars

----------------------------------------------------------------------------
(* The per-frame readers of the pose extractor *)

Robots == {"target", "actual"}

\* default tolerance of tcpPosesAreDifferent: 0.01 mm / 0.01 degrees
TCP_TOLERANCE == 10000

\* a refresh that keeps the cached matrices as they are
updateMatrixWorldNever(ch, cached) == cached

\* l6Link.updateMatrixWorld(true) and getWorldPosition: the cached world
\* matrices are recomputed from the joint values the robot holds
updateMatrixWorld(ch, cached) ==
    IF ch.loaded /\ ch.l6 THEN ch.angles ELSE cached

\* threeJsToRobot: Y-up coordinates to Z-up coordinates
threeJsToRobot(p) == <<p[1], -p[3], p[2], p[4], p[5], p[6]>>

tcpPosesAreDifferent(pose1, pose2) ==
    \/ ~pose1.available
    \/ ~pose2.available
    \/ \E a \in Axes : Abs(pose1.pose[a] - pose2.pose[a]) > TCP_TOLERANCE

\* a reader that stores "unavailable" when the extractor gives no pose
StoreFrameOrClear(extracted, stored) == extracted

\* if (!pose) return: the frame is skipped and the stored pose stays
StoreFrame(extracted, stored) ==
    IF extracted.available THEN extracted ELSE stored

\* useFrame of TargetTCPVisualizer
TargetTcpFrame ==
    /\ UNCHANGED ctlVars
    /\ EffectsFlushed
    /\ chain.loaded
    /\ LET threeJsPose == calculateTcpPoseFromUrdf(chain)
           robotPose ==
               IF threeJsPose.available
               THEN [available |-> TRUE, pose |-> threeJsToRobot(threeJsPose.pose)]
               ELSE NoPose
           changed == /\ threeJsPose.available
                      /\ tcpPosesAreDifferent(robotPose, lastPositionRef.target)
       IN /\ matrixWorld' =
                [matrixWorld EXCEPT !.target = updateMatrixWorld(chain, @)]
          /\ lastPositionRef' =
                IF changed THEN [lastPositionRef EXCEPT !.target = robotPose]
                ELSE lastPositionRef
          /\ commandedTcpPose' =
                IF changed \/ ~threeJsPose.available
                THEN StoreFrame(robotPose, commandedTcpPose)
                ELSE commandedTcpPose
    /\ UNCHANGED <<actualTcpPosition, actualRobot, hardwareJointAngles>>
    /\ UNCHANGED <<solves, chain, prev, commanded, inputPose, ikAxisMask, timeline,
                   playbackState, now, playFx, scrubFx, ikTimer, backendReq,
                   frontendResult, backendResult, lastValidCartesianPose, lastSolve,
                   solvedPose>>

\* the effect of RobotViewer that shows the hardware feedback has run
ActualFlushed ==
    actualRobot.loaded =>
        actualRobot.angles = (IF hardwareJointAngles = <<>> THEN STANDBY_POSITION
                              ELSE hardwareJointAngles)

\* useFrame of ActualTCPVisualizer
ActualTcpFrame ==
    /\ UNCHANGED ctlVars
    /\ EffectsFlushed /\ ActualFlushed
    /\ actualRobot.loaded
    /\ IF hardwareJointAngles = <<>>
       THEN /\ actualTcpPosition' = NoPose
            /\ UNCHANGED <<matrixWorld, lastPositionRef>>
       ELSE LET newPosition == calculateTcpPoseFromUrdf(actualRobot)
                changed == /\ newPosition.available
                           /\ tcpPosesAreDifferent(newPosition, lastPositionRef.actual)
            IN /\ matrixWorld' =
                     [matrixWorld EXCEPT !.actual = updateMatrixWorld(actualRobot, @)]
               /\ lastPositionRef' =
                     IF changed THEN [lastPositionRef EXCEPT !.actual = newPosition]
                     ELSE lastPositionRef
               /\ actualTcpPosition' =
                     IF changed \/ ~newPosition.available
                     THEN StoreFrame(newPosition, actualTcpPosition)
                     ELSE actualTcpPosition
    /\ UNCHANGED <<commandedTcpPose, actualRobot, hardwareJointAngles>>
    /\ UNCHANGED <<solves, chain, prev, commanded, inputPose, ikAxisMask, timeline,
                   playbackState, now, playFx, scrubFx, ikTimer, backendReq,
                   frontendResult, backendResult, lastValidCartesianPose, lastSolve,
                   solvedPose>>

\* the renderer draws the scene and updates every world matrix
RenderScene ==
    /\ UNCHANGED ctlVars
    /\ EffectsFlushed /\ ActualFlushed
    /\ matrixWorld' = [r \in Robots |->
                          IF r = "target"
                          THEN (IF chain.loaded THEN chain.angles ELSE matrixWorld[r])
                          ELSE (IF actualRobot.loaded THEN actualRobot.angles
                                ELSE matrixWorld[r])]
    /\ matrixWorld' # matrixWorld
    /\ UNCHANGED <<commandedTcpPose, actualTcpPosition, lastPositionRef, actualRobot,
                   hardwareJointAngles>>
    /\ UNCHANGED <<solves, chain, prev, commanded, inputPose, ikAxisMask, timeline,
                   playbackState, now, playFx, scrubFx, ikTimer, backendReq,
                   frontendResult, backendResult, lastValidCartesianPose, lastSolve,
                   solvedPose>>

\* the URDF loader delivers the ghost robot
LoadActualRobot ==
    /\ UNCHANGED ctlVars
    /\ ~actualRobot.loaded
    /\ actualRobot' = [actualRobot EXCEPT !.loaded = TRUE, !.angles = STANDBY_POSITION]
    /\ matrixWorld' = [matrixWorld EXCEPT !.actual = STANDBY_POSITION]
    /\ UNCHANGED <<commandedTcpPose, actualTcpPosition, lastPositionRef,
                   hardwareJointAngles>>
    /\ UNCHANGED <<solves, chain, prev, commanded, inputPose, ikAxisMask, timeline,
                   playbackState, now, playFx, scrubFx, ikTimer, backendReq,
                   frontendResult, backendResult, lastValidCartesianPose, lastSolve,
                   solvedPose>>

\* effect of RobotViewer: write the hardware feedback into the ghost robot
RenderActual ==
    /\ UNCHANGED ctlVars
    /\ actualRobot.loaded
    /\ ~ActualFlushed
    /\ actualRobot' = [actualRobot EXCEPT !.angles =
                          IF hardwareJointAngles = <<>> THEN STANDBY_POSITION
                          ELSE hardwareJointAngles]
    /\ UNCHANGED <<matrixWorld, commandedTcpPose, actualTcpPosition, lastPositionRef,
                   hardwareJointAngles>>
    /\ UNCHANGED <<solves, chain, prev, commanded, inputPose, ikAxisMask, timeline,
                   playbackState, now, playFx, scrubFx, ikTimer, backendReq,
                   frontendResult, backendResult, lastValidCartesianPose, lastSolve,
                   solvedPose>>

\* joint angles the hardware may report: within the limits, and J1 beyond its limit
HardwareSamples ==
    { <<10000000, -90000000, 180000000, 0, 0, 180000000>>,
      <<130000000, -90000000, 180000000, 0, 0, 180000000>> }

\* WebSocketConnector: feedback arrives
setHardwareJointAngles(angles) ==
    /\ UNCHANGED ctlVars
    /\ EffectsFlushed /\ ActualFlushed
    /\ angles # hardwareJointAngles
    /\ hardwareJointAngles' = angles
    /\ UNCHANGED <<matrixWorld, commandedTcpPose, actualTcpPosition, lastPositionRef,
                   actualRobot>>
    /\ UNCHANGED <<solves, chain, prev, commanded, inputPose, ikAxisMask, timeline,
                   playbackState, now, playFx, scrubFx, ikTimer, backendReq,
                   frontendResult, backendResult, lastValidCartesianPose, lastSolve,
                   solvedPose>>

\* useHardwareStore: the joint angles fed back and the reference to the ghost robot
HardwareStore ==
    [hardwareJointAngles |-> hardwareJointAngles, hardwareRobotRef |-> actualRobot.loaded]

\* the link table of a robot gains or loses its terminal link L6
SetLinkL6(robot, present) ==
    /\ UNCHANGED ctlVars
    /\ EffectsFlushed /\ ActualFlushed
    /\ IF robot = "target"
       THEN /\ chain.l6 # present
            /\ chain' = [chain EXCEPT !.l6 = present]
            /\ UNCHANGED actualRobot
       ELSE /\ actualRobot.l6 # present
            /\ actualRobot' = [actualRobot EXCEPT !.l6 = present]
            /\ UNCHANGED chain
    /\ UNCHANGED <<matrixWorld, commandedTcpPose, actualTcpPosition, lastPositionRef,
                   hardwareJointAngles>>
    /\ UNCHANGED <<solves, prev, commanded, inputPose, ikAxisMask, timeline,
                   playbackState, now, playFx, scrubFx, ikTimer, backendReq,
                   frontendResult, backendResult, lastValidCartesianPose, lastSolve,
                   solvedPose>>

\* the two robots, the hardware feedback and the per-frame pose readers
NextFrame ==
    \/ LoadRobot
    \/ RenderCommanded
    \/ PlaybackEffect
    \/ ScrubEffect
    \/ \E in \in JointInputs : setJointAngle(in[1], in[2])
    \/ LoadActualRobot
    \/ RenderActual
    \/ \E angles \in HardwareSamples : setHardwareJointAngles(angles)
    \/ \E robot \in Robots, present \in BOOLEAN : SetLinkL6(robot, present)
    \/ TargetTcpFrame
    \/ ActualTcpFrame
    \/ RenderScene

SpecFrame == Init /\ [][NextFrame]_vars

----------------------------------------------------------------------------
(* Control modes: teach mode and live control *)

\* a setter that leaves the other mode as it is
OtherModeKept(follows, other) == other

\* "Disable the other mode if enabling this one"
OtherModeAfter(follows, other) == IF follows THEN FALSE ELSE other

setTargetFollowsActual(follows) ==
    /\ EffectsFlushed
    /\ targetFollowsActual' = follows
    /\ actualFollowsTarget' = OtherModeAfter(follows, actualFollowsTarget)
    /\ targetFollowsActual' # targetFollowsActual
    /\ UNCHANGED <<teachFx, liveFx, moveCommand, previewAngles, prePlay>>
    /\ UNCHANGED extVars
    /\ UNCHANGED <<solves, chain, prev, commanded, inputPose, ikAxisMask, timeline,
                   playbackState, now, playFx, scrubFx, ikTimer, backendReq,
                   frontendResult, backendResult, lastValidCartesianPose>>
    /\ NoSolveMade

setActualFollowsTarget(follows) ==
    /\ EffectsFlushed
    /\ actualFollowsTarget' = follows
    /\ targetFollowsActual' = OtherModeAfter(follows, targetFollowsActual)
    /\ actualFollowsTarget' # actualFollowsTarget
    /\ UNCHANGED <<teachFx, liveFx, moveCommand, previewAngles, prePlay>>
    /\ UNCHANGED extVars
    /\ UNCHANGED <<solves, chain, prev, commanded, inputPose, ikAxisMask, timeline,
                   playbackState, now, playFx, scrubFx, ikTimer, backendReq,
                   frontendResult, backendResult, lastValidCartesianPose>>
    /\ NoSolveMade

\* the hardware feedback as the teach-mode effect writes it
TeachMirror(angles) == angles

\* teach-mode effect of RobotViewer: copy every hardware joint angle to the
\* commanded joint angles
TeachEffect ==
    /\ teachFx # TeachDeps
    /\ teachFx' = TeachDeps
    /\ commanded' = IF targetFollowsActual /\ hardwareJointAngles # <<>>
                    THEN TeachMirror(hardwareJointAngles) ELSE commanded
    /\ UNCHANGED <<targetFollowsActual, actualFollowsTarget, liveFx, moveCommand,
                   previewAngles, prePlay>>
    /\ UNCHANGED extVars
    /\ UNCHANGED <<solves, chain, prev, inputPose, ikAxisMask, timeline,
                   playbackState, now, playFx, scrubFx, ikTimer, backendReq,
                   frontendResult, backendResult, lastValidCartesianPose>>
    /\ NoSolveMade

\* effects of useActualFollowsTarget: the debounce timer of the last run is
\* cleared; a new one is set unless playback runs, live control is off, or
\* the joint angles are the ones sent last
\* effects that leave a timer set by an earlier run in place when they skip
\* (not the code)
LiveEffectKeepsTimer ==
    /\ liveFx.deps # LiveDeps
    /\ LET lastSent == IF actualFollowsTarget THEN liveFx.lastSentAngles ELSE <<>>
           skip == \/ playbackState.isPlaying
                   \/ ~actualFollowsTarget
                   \/ lastSent = commanded
       IN liveFx' = [deps |-> LiveDeps,
                     pending |-> IF skip THEN liveFx.pending ELSE TRUE,
                     setAt |-> IF skip THEN liveFx.setAt ELSE now,
                     angles |-> IF skip THEN liveFx.angles ELSE commanded,
                     lastSentAngles |-> lastSent]
    /\ UNCHANGED <<targetFollowsActual, actualFollowsTarget, teachFx, moveCommand,
                   previewAngles, prePlay>>
    /\ UNCHANGED extVars
    /\ UNCHANGED <<solves, chain, prev, commanded, inputPose, ikAxisMask, timeline,
                   playbackState, now, playFx, scrubFx, ikTimer, backendReq,
                   frontendResult, backendResult, lastValidCartesianPose>>
    /\ NoSolveMade

LiveEffect ==
    /\ liveFx.deps # LiveDeps
    /\ LET lastSent == IF actualFollowsTarget THEN liveFx.lastSentAngles ELSE <<>>
           skip == \/ playbackState.isPlaying
                   \/ ~actualFollowsTarget
                   \/ lastSent = commanded
       IN liveFx' = [deps |-> LiveDeps, pending |-> ~skip,
                     setAt |-> IF skip THEN 0 ELSE now,
                     angles |-> IF skip THEN <<>> ELSE commanded,
                     lastSentAngles |-> lastSent]
    /\ UNCHANGED <<targetFollowsActual, actualFollowsTarget, teachFx, moveCommand,
                   previewAngles, prePlay>>
    /\ UNCHANGED extVars
    /\ UNCHANGED <<solves, chain, prev, commanded, inputPose, ikAxisMask, timeline,
                   playbackState, now, playFx, scrubFx, ikTimer, backendReq,
                   frontendResult, backendResult, lastValidCartesianPose>>
    /\ NoSolveMade

\* the debounce timer fires: POST /api/robot/move/joints with the joint
\* angles of the render that set the timer
LiveSend(ok) ==
    /\ EffectsFlushed
    /\ liveFx.pending
    /\ moveCommand' = [flip |-> ~moveCommand.flip, angles |-> liveFx.angles]
    /\ liveFx' = [liveFx EXCEPT !.pending = FALSE, !.setAt = 0, !.angles = <<>>,
                                !.lastSentAngles = IF ok THEN liveFx.angles ELSE @]
    /\ UNCHANGED <<targetFollowsActual, actualFollowsTarget, teachFx, previewAngles,
                   prePlay>>
    /\ UNCHANGED extVars
    /\ UNCHANGED <<solves, chain, prev, commanded, inputPose, ikAxisMask, timeline,
                   playbackState, now, playFx, scrubFx, ikTimer, backendReq,
                   frontendResult, backendResult, lastValidCartesianPose>>
    /\ NoSolveMade

\* 500 ms, in ticks of the model's clock (1 s), rounded up
DebounceTicks == 1

\* sliders of J1 moved in a burst
LiveInputs == {<<1, 60000000>>, <<1, 120000000>>}

\* a timer that fires although its delay has not passed (not the code)
LiveSendAtOnce(ok) == LiveSend(ok)

\* setTimeout(..., 500): the debounce timer fires when its delay has passed
LiveSendDue(ok) ==
    /\ now >= liveFx.setAt + DebounceTicks
    /\ LiveSend(ok)

\* live control of a robot whose joint sliders are moved
NextLive ==
    \/ PlaybackEffect
    \/ ScrubEffect
    \/ ClockAdvance
    \/ \E follows \in BOOLEAN : setActualFollowsTarget(follows)
    \/ \E in \in LiveInputs : setJointAngle(in[1], in[2])
    \/ LiveEffect
    \/ \E ok \in BOOLEAN : LiveSendDue(ok)

SpecLive == Init /\ [][NextLive]_vars

\* joint-mode playback under the control modes
NextControl ==
    \/ \E tl \in {t \in SampleTimelines : t.mode = "joint"} : loadTimeline(tl)
    \/ \E executeOnRobot \in BOOLEAN : play(executeOnRobot)
    \/ pause
    \/ stop
    \/ ClockAdvance
    \/ PlaybackEffect
    \/ PlaybackTick
    \/ ScrubEffect
    \/ \E follows \in BOOLEAN : setTargetFollowsActual(follows)
    \/ \E follows \in BOOLEAN : setActualFollowsTarget(follows)
    \/ \E angles \in HardwareSamples : setHardwareJointAngles(angles)
    \/ TeachEffect
    \/ LiveEffect
    \/ \E ok \in BOOLEAN : LiveSend(ok)

SpecControl == Init /\ [][NextControl]_vars

----------------------------------------------------------------------------
(* Recording: the Record button and the keyframes it adds *)

\* records the Record button may add before the timeline is full
MaxRecords == 2

\* uuidv4(): an id no keyframe of the array carries
FreshId(kfs) ==
    IF kfs = <<>> THEN 1
    ELSE 1 + (CHOOSE m \in {kfs[i].id : i \in 1..Len(kfs)} :
                 \A i \in 1..Len(kfs) : kfs[i].id <= m)

\* a store that keeps one keyframe per joint and time (not the code)
addKeyframeReplacing(keyframes, time, joint, value) ==
    SortByTime(SelectSeq(keyframes, LAMBDA kf : ~(kf.joint = joint /\ kf.time = time))
               \o << [id |-> FreshId(keyframes), time |-> time, joint |-> joint,
                      value |-> value] >>)

addKeyframe(keyframes, time, joint, value) ==
    SortByTime(keyframes \o << [id |-> FreshId(keyframes), time |-> time,
                                joint |-> joint, value |-> value] >>)

addCartesianKeyframe(keyframes, time, axis, value) ==
    SortByTime(keyframes \o << [id |-> FreshId(keyframes), time |-> time,
                                axis |-> axis, value |-> value] >>)

\* JOINT_NAMES.forEach(joint => addKeyframe(currentTime, joint, values[joint]))
RECURSIVE RecordJoints(_, _, _, _)
RecordJoints(keyframes, time, values, joint) ==
    IF joint > 6 THEN keyframes
    ELSE RecordJoints(addKeyframe(keyframes, time, joint, values[joint]),
                      time, values, joint + 1)

\* CARTESIAN_AXES.forEach(axis => addCartesianKeyframe(currentTime, axis, values[axis]))
RECURSIVE RecordAxes(_, _, _, _)
RecordAxes(keyframes, time, values, axis) ==
    IF axis > 6 THEN keyframes
    ELSE RecordAxes(addCartesianKeyframe(keyframes, time, axis, values[axis]),
                    time, values, axis + 1)

\* recordKeyframes: declared () => void; what the caller passes is dropped and
\* the commanded joint angles of the store are recorded
recordKeyframes(jointAngles) ==
    timeline' = [timeline EXCEPT
                   !.keyframes = RecordJoints(@, playbackState.currentTime,
                                              commanded, 1)]

\* recordCartesianKeyframes: declared () => void; what the caller passes is
\* dropped and the input pose of the sliders is recorded
recordCartesianKeyframes(pose) ==
    timeline' = [timeline EXCEPT
                   !.cartesianKeyframes = RecordAxes(@, playbackState.currentTime,
                                                     inputPose, 1)]

\* handleRecord of PlaybackControls
handleRecord ==
    /\ UNCHANGED <<extVars, ctlVars>>
    /\ EffectsFlushed
    /\ Len(timeline.keyframes) < 6 * MaxRecords
    /\ Len(timeline.cartesianKeyframes) < 6 * MaxRecords
    /\ IF timeline.mode = "joint"
       THEN recordKeyframes(commanded)
       ELSE IF commandedTcpPose.available
       THEN recordCartesianKeyframes(commandedTcpPose.pose)
       ELSE UNCHANGED timeline
    /\ UNCHANGED <<solves, chain, prev, commanded, inputPose, ikAxisMask,
                   playbackState, now, playFx, scrubFx, ikTimer, backendReq,
                   frontendResult, backendResult, lastValidCartesianPose>>
    /\ NoSolveMade

RecordTimes == {0, 1}

\* the RY slider is dragged to 10 degrees
RecordInputs == {<<5, 10000000>>}

NextRecord ==
    \/ LoadRobot
    \/ RenderCommanded
    \/ PlaybackEffect
    \/ ScrubEffect
    \/ TargetTcpFrame
    \/ \E in \in JointInputs : setJointAngle(in[1], in[2])
    \/ \E in \in RecordInputs : handleSliderChange(in[1], in[2])
    \/ \E mode \in {"joint", "cartesian"} : setMotionMode(mode)
    \/ \E time \in RecordTimes : setCurrentTime(time)
    \/ handleRecord

SpecRecord == Init /\ [][NextRecord]_vars

----------------------------------------------------------------------------
(* Editing: keyframes are dragged and deleted, timeline files are imported *)

\* a keyframe is dragged to another time
updateKeyframe(id, time) ==
    /\ UNCHANGED <<extVars, ctlVars>>
    /\ EffectsFlushed
    /\ \E i \in 1..Len(timeline.keyframes) :
          /\ timeline.keyframes[i].id = id
          /\ timeline.keyframes[i].time # time
    /\ timeline' = [timeline EXCEPT
                      !.keyframes =
                         SortByTime([i \in 1..Len(@) |->
                                       IF @[i].id = id
                                       THEN [@[i] EXCEPT !.time = time]
                                       ELSE @[i]])]
    /\ UNCHANGED <<solves, chain, prev, commanded, inputPose, ikAxisMask,
                   playbackState, now, playFx, scrubFx, ikTimer, backendReq,
                   frontendResult, backendResult, lastValidCartesianPose>>
    /\ NoSolveMade

\* a selected keyframe is deleted
removeKeyframe(id) ==
    /\ UNCHANGED <<extVars, ctlVars>>
    /\ EffectsFlushed
    /\ \E i \in 1..Len(timeline.keyframes) : timeline.keyframes[i].id = id
    /\ timeline' = [timeline EXCEPT
                      !.keyframes = SelectSeq(@, LAMBDA kf : kf.id # id)]
    /\ UNCHANGED <<solves, chain, prev, commanded, inputPose, ikAxisMask,
                   playbackState, now, playFx, scrubFx, ikTimer, backendReq,
                   frontendResult, backendResult, lastValidCartesianPose>>
    /\ NoSolveMade

updateCartesianKeyframe(id, time) ==
    /\ UNCHANGED <<extVars, ctlVars>>
    /\ EffectsFlushed
    /\ \E i \in 1..Len(timeline.cartesianKeyframes) :
          /\ timeline.cartesianKeyframes[i].id = id
          /\ timeline.cartesianKeyframes[i].time # time
    /\ timeline' = [timeline EXCEPT
                      !.cartesianKeyframes =
                         SortByTime([i \in 1..Len(@) |->
                                       IF @[i].id = id
                                       THEN [@[i] EXCEPT !.time = time]
                                       ELSE @[i]])]
    /\ UNCHANGED <<solves, chain, prev, commanded, inputPose, ikAxisMask,
                   playbackState, now, playFx, scrubFx, ikTimer, backendReq,
                   frontendResult, backendResult, lastValidCartesianPose>>
    /\ NoSolveMade

removeCartesianKeyframe(id) ==
    /\ UNCHANGED <<extVars, ctlVars>>
    /\ EffectsFlushed
    /\ \E i \in 1..Len(timeline.cartesianKeyframes) :
          timeline.cartesianKeyframes[i].id = id
    /\ timeline' = [timeline EXCEPT
                      !.cartesianKeyframes = SelectSeq(@, LAMBDA kf : kf.id # id)]
    /\ UNCHANGED <<solves, chain, prev, commanded, inputPose, ikAxisMask,
                   playbackState, now, playFx, scrubFx, ikTimer, backendReq,
                   frontendResult, backendResult, lastValidCartesianPose>>
    /\ NoSolveMade

\* a timeline file whose keyframes are not in the order of their times
UnsortedFile ==
    [mode |-> "joint", cartesianKeyframes |-> <<>>, duration |-> 2,
     keyframes |->
       << [id |-> 1, time |-> 2, joint |-> 1, value |-> 120000000],
          [id |-> 2, time |-> 0, joint |-> 1, value |-> 0] >>]

\* files handleImport may be given: exported timelines, and a file written by hand
ImportedTimelines == SampleTimelines \cup {UnsortedFile}

EditIds == {1, 2}

EditTimes == {0, 2}

NextEdit ==
    \/ PlaybackEffect
    \/ ScrubEffect
    \/ \E tl \in ImportedTimelines : loadTimeline(tl)
    \/ \E mode \in {"joint", "cartesian"} : setMotionMode(mode)
    \/ handleRecord
    \/ \E id \in EditIds, time \in EditTimes : updateKeyframe(id, time)
    \/ \E id \in EditIds : removeKeyframe(id)
    \/ \E id \in EditIds, time \in EditTimes : updateCartesianKeyframe(id, time)
    \/ \E id \in EditIds : removeCartesianKeyframe(id)

SpecEdit == Init /\ [][NextEdit]_vars

\* a timeline file written by hand that holds keyframes of both modes
MixedFile ==
    [mode |-> "joint", duration |-> 2,
     keyframes |->
       << [id |-> 1, time |-> 0, joint |-> 1, value |-> 0],
          [id |-> 2, time |-> 2, joint |-> 1, value |-> 120000000] >>,
     cartesianKeyframes |->
       << [id |-> 3, time |-> 0, axis |-> 5, value |-> 0],
          [id |-> 4, time |-> 2, axis |-> 5, value |-> 10000000] >>]

\* the mode toggle: import, mode switch, playhead, playback
NextMode ==
    \/ \E tl \in SampleTimelines \cup {MixedFile} : loadTimeline(tl)
    \/ \E mode \in {"joint", "cartesian"} : setMotionMode(mode)
    \/ \E time \in {1} : setCurrentTime(time)
    \/ \E executeOnRobot \in BOOLEAN : play(executeOnRobot)
    \/ pause
    \/ ClockAdvance
    \/ PlaybackEffect
    \/ PlaybackTick
    \/ ScrubEffect

SpecMode == Init /\ [][NextMode]_vars

----------------------------------------------------------------------------
(* Execute playback: the robot is moved to the start of the timeline first *)

\* 0.1 degree
POSITION_TOLERANCE_DEGREES == 100000

\* outcomes of one invocation the model follows
MaxOutcomes == 2

isAtPosition(actual, target, tolerance) ==
    \A joint \in Joints : Abs(actual[joint] - target[joint]) <= tolerance

\* clearTimers: the interval and the timer the two refs hold are cleared
clearTimers(pp) ==
    [pp EXCEPT
       !.pollIntervalRef = 0,
       !.timeoutRef = 0,
       !.calls = [k \in 1..MaxCalls |->
                    [@[k] EXCEPT
                       !.poll = IF k = pp.pollIntervalRef THEN FALSE ELSE @,
                       !.timeout = IF k = pp.timeoutRef THEN FALSE ELSE @]]]

\* an invocation ends: timers cleared, error shown or not, no longer moving
EndCall(pp, k, outcome, error) ==
    [clearTimers(pp) EXCEPT
       !.isMovingToStart = FALSE,
       !.moveError = IF error = "" THEN @ ELSE error,
       !.calls[k].phase = "done",
       !.calls[k].outcomes = Append(@, outcome)]

\* play(executeOnRobot) of the store, called from the hook
PlayStarted(executeOnRobot) ==
    [playbackState EXCEPT
       !.isPlaying = TRUE, !.hasStartTime = TRUE,
       !.executeOnRobot = executeOnRobot,
       !.startTime = now - playbackState.currentTime]

\* moveToStartAndPlay up to its await
moveToStartAndPlay ==
    /\ UNCHANGED <<extVars, targetFollowsActual, actualFollowsTarget, teachFx, liveFx,
                   previewAngles>>
    /\ EffectsFlushed
    /\ IF timeline.mode # "joint"
       THEN /\ prePlay' = [prePlay EXCEPT !.moveError = "joint mode only"]
            /\ UNCHANGED <<playbackState, moveCommand>>
       ELSE IF hardwareJointAngles = <<>>
       THEN /\ prePlay' = [prePlay EXCEPT !.moveError = "not connected"]
            /\ UNCHANGED <<playbackState, moveCommand>>
       ELSE IF timeline.keyframes = <<>>
       THEN /\ prePlay' = [prePlay EXCEPT !.moveError = "no keyframes"]
            /\ UNCHANGED <<playbackState, moveCommand>>
       ELSE LET targetPosition == getJointAnglesAtTime(timeline.keyframes, 0)
            IN IF isAtPosition(hardwareJointAngles, targetPosition,
                               POSITION_TOLERANCE_DEGREES)
               THEN /\ playbackState' = PlayStarted(TRUE)
                    /\ UNCHANGED <<prePlay, moveCommand>>
               ELSE \E k \in 1..MaxCalls :
                       /\ prePlay.calls[k].phase = "none"
                       /\ \A h \in 1..(k - 1) : prePlay.calls[h].phase # "none"
                       /\ prePlay' = [prePlay EXCEPT
                                        !.isMovingToStart = TRUE,
                                        !.moveError = "",
                                        !.calls[k].phase = "moving",
                                        !.calls[k].targetPosition = targetPosition]
                       /\ moveCommand' = [flip |-> ~moveCommand.flip,
                                          angles |-> targetPosition]
                       /\ UNCHANGED playbackState
    /\ UNCHANGED <<solves, chain, prev, commanded, inputPose, ikAxisMask, timeline,
                   now, playFx, scrubFx, ikTimer, backendReq, frontendResult,
                   backendResult, lastValidCartesianPose>>
    /\ NoSolveMade

\* the move command is answered: the timeout and the poll interval are set, or
\* the catch block runs
MoveResolved(k, success) ==
    /\ UNCHANGED <<extVars, targetFollowsActual, actualFollowsTarget, teachFx, liveFx,
                   moveCommand, previewAngles>>
    /\ EffectsFlushed
    /\ prePlay.calls[k].phase = "moving"
    /\ prePlay' =
         IF success
         THEN [prePlay EXCEPT
                 !.timeoutRef = k,
                 !.pollIntervalRef = k,
                 !.calls[k].phase = "polling",
                 !.calls[k].poll = TRUE,
                 !.calls[k].timeout = TRUE]
         ELSE [clearTimers(prePlay) EXCEPT
                 !.isMovingToStart = FALSE,
                 !.moveError = "move failed",
                 !.calls[k].phase = "failed"]
    /\ UNCHANGED <<solves, chain, prev, commanded, inputPose, ikAxisMask, timeline,
                   playbackState, now, playFx, scrubFx, ikTimer, backendReq,
                   frontendResult, backendResult, lastValidCartesianPose>>
    /\ NoSolveMade

\* one run of the poll interval of invocation k that finds the feedback gone or
\* the robot at the start position
PollTick(k) ==
    /\ UNCHANGED <<extVars, targetFollowsActual, actualFollowsTarget, teachFx, liveFx,
                   moveCommand, previewAngles>>
    /\ EffectsFlushed
    /\ prePlay.calls[k].poll
    /\ Len(prePlay.calls[k].outcomes) < MaxOutcomes
    /\ IF hardwareJointAngles = <<>>
       THEN /\ prePlay' = EndCall(prePlay, k, "lost", "lost connection")
            /\ UNCHANGED playbackState
       ELSE /\ isAtPosition(hardwareJointAngles, prePlay.calls[k].targetPosition,
                            POSITION_TOLERANCE_DEGREES)
            /\ prePlay' = EndCall(prePlay, k, "arrived", "")
            /\ playbackState' = PlayStarted(TRUE)
    /\ UNCHANGED <<solves, chain, prev, commanded, inputPose, ikAxisMask, timeline,
                   now, playFx, scrubFx, ikTimer, backendReq, frontendResult,
                   backendResult, lastValidCartesianPose>>
    /\ NoSolveMade

\* the 60 s timer of invocation k fires
PollTimeout(k) ==
    /\ UNCHANGED <<extVars, targetFollowsActual, actualFollowsTarget, teachFx, liveFx,
                   moveCommand, previewAngles>>
    /\ EffectsFlushed
    /\ prePlay.calls[k].timeout
    /\ Len(prePlay.calls[k].outcomes) < MaxOutcomes
    /\ prePlay' = [EndCall(prePlay, k, "timeout", "timeout") EXCEPT
                     !.calls[k].timeout = FALSE]
    /\ UNCHANGED <<solves, chain, prev, commanded, inputPose, ikAxisMask, timeline,
                   playbackState, now, playFx, scrubFx, ikTimer, backendReq,
                   frontendResult, backendResult, lastValidCartesianPose>>
    /\ NoSolveMade

\* feedback during a pre-move: on the way, at the start of the timeline, gone
PrePlaySamples ==
    { <<10000000, -90000000, 180000000, 0, 0, 180000000>>, STANDBY_POSITION, <<>> }

NextPrePlay ==
    \/ PlaybackEffect
    \/ ScrubEffect
    \/ \E tl \in SampleTimelines : loadTimeline(tl)
    \/ \E id \in {1} : removeKeyframe(id)
    \/ stop
    \/ \E angles \in PrePlaySamples : setHardwareJointAngles(angles)
    \/ moveToStartAndPlay
    \/ \E k \in 1..MaxCalls, success \in BOOLEAN : MoveResolved(k, success)
    \/ \E k \in 1..MaxCalls : PollTick(k)
    \/ \E k \in 1..MaxCalls : PollTimeout(k)

SpecPrePlay == Init /\ [][NextPrePlay]_vars

----------------------------------------------------------------------------
(* The solver under its callers: inputs of the solves *)

Sites == {"tick", "scrub", "key", "timer"}

PositionOnlyMask == [a \in Axes |-> a \in PositionAxes]

Masks == {FullMask, PositionOnlyMask}

\* within limits, J1 near its upper limit, J5 where the chain has lost RY
SeedNearLimit == <<120000000, -90000000, 180000000, 0, -60000000, 180000000>>
\* J1 and J6 beyond their limits
SeedOutside == <<130000000, -90000000, 180000000, 0, 0, 370000000>>
\* J6 missing
SeedShort == <<0, -90000000, 180000000, 0, 0>>

Seeds == {STANDBY_POSITION, SeedNearLimit, SeedOutside, SeedShort}

ChainStates == {STANDBY_POSITION, SeedNearLimit}

HomePose == ChainPose(STANDBY_POSITION)

\* within limits, J5 where the chain has lost RY
ConfigBelowWrist == <<110000000, -90000000, 180000000, 0, -50000000, 180000000>>

Targets ==
    { [pose |-> HomePose, nonFinite |-> {}],
      \* 40 degrees in RZ only
      [pose |-> [HomePose EXCEPT ![6] = 40000000], nonFinite |-> {}],
      \* 10 degrees in RY
      [pose |-> [HomePose EXCEPT ![5] = 10000000], nonFinite |-> {}],
      \* X beyond what the J1 limit allows
      [pose |-> [HomePose EXCEPT ![1] = 126000000], nonFinite |-> {}],
      \* {X: 1000000 mm, all else 0}
      [pose |-> <<1000000000, 0, 0, 0, 0, 0>>, nonFinite |-> {}],
      \* the pose of a configuration below J5 = -45 degrees
      [pose |-> ChainPose(ConfigBelowWrist), nonFinite |-> {}],
      \* X is NaN
      [pose |-> HomePose, nonFinite |-> {1}] }

NoPrev == [has |-> FALSE, inputs |-> <<>>, result |-> NoResult]

FrameInputs(f) == <<f.seed, f.target, f.nonFinite, f.mask>>

\* callbacks that could start while another one is inside a solve
TaskMayStartAnytime == TRUE

\* a callback starts only when the running one has returned: every call of
\* the solver is synchronous, nothing awaits inside a solve
TaskMayStart == \A s \in Sites : solves[s].pc = "idle"

Active(s) == solves[s].pc # "idle"

InitIK ==
    /\ solves = [s \in Sites |-> IdleFrame]
    /\ chain = [loaded |-> TRUE, l6 |-> TRUE, angles |-> STANDBY_POSITION]
    /\ prev = NoPrev
    /\ InitApp

\* a call site invokes inverseKinematicsDetailed
Begin(site) ==
    /\ TaskMayStart
    /\ solves[site].pc = "idle"
    /\ chain.loaded
    /\ \E seed \in Seeds, t \in Targets, mask \in Masks :
         LET c == IKCall(seed, t.pose, t.nonFinite, mask, chain)
         IN /\ solves' = [solves EXCEPT ![site] = c.f]
            /\ chain' = c.ch
    /\ UNCHANGED prev
    /\ UNCHANGED appVars

Advance(site, s) ==
    /\ solves' = [solves EXCEPT ![site] = s.f]
    /\ chain' = s.ch
    /\ UNCHANGED prev
    /\ UNCHANGED appVars

StepSeeded(site) ==
    /\ solves[site].pc = "SEEDED"
    /\ Advance(site, IKEnterLoop(solves[site], chain))

StepReject(site) ==
    /\ solves[site].pc = "ITERATING" /\ solves[site].phase = "reject"
    /\ Advance(site, IKReject(solves[site], chain))

StepEval(site) ==
    /\ solves[site].pc = "ITERATING" /\ solves[site].phase = "eval"
    /\ Advance(site, IKEval(solves[site], chain))

StepPerturb(site) ==
    /\ solves[site].pc = "ITERATING" /\ solves[site].phase = "perturb"
    /\ Advance(site, IKPerturbJoint(solves[site], chain))

StepMeasure(site) ==
    /\ solves[site].pc = "ITERATING" /\ solves[site].phase = "measure"
    /\ Advance(site, IKMeasureJoint(solves[site], chain))

StepUpdate(site) ==
    /\ solves[site].pc = "ITERATING" /\ solves[site].phase = "update"
    /\ Advance(site, IKUpdate(solves[site], chain))

\* the call returns its result to the call site
Return(site) ==
    /\ solves[site].pc \in Terminal
    /\ prev' = [has |-> TRUE, inputs |-> FrameInputs(solves[site]),
                result |-> solves[site].result]
    /\ solves' = [solves EXCEPT ![site] = IdleFrame]
    /\ UNCHANGED chain
    /\ UNCHANGED appVars

\* the render effect writes the commanded joint values into the chain
RenderApply ==
    /\ TaskMayStart
    /\ \E q \in ChainStates : chain' = [chain EXCEPT !.angles = q]
    /\ UNCHANGED <<solves, prev>>
    /\ UNCHANGED appVars

NextIK ==
    \/ \E site \in Sites : Begin(site)
    \/ \E site \in Sites : StepSeeded(site)
    \/ \E site \in Sites : StepReject(site)
    \/ \E site \in Sites : StepEval(site)
    \/ \E site \in Sites : StepPerturb(site)
    \/ \E site \in Sites : StepMeasure(site)
    \/ \E site \in Sites : StepUpdate(site)
    \/ \E site \in Sites : Return(site)
    \/ RenderApply

SpecIK == InitIK /\ [][NextIK]_vars

----------------------------------------------------------------------------
(* Properties of the solver, checked under SpecIK *)

Frames == {solves[s] : s \in Sites}

Returning(f) == f.pc \in Terminal

WellFormedInput(f) == f.nonFinite = {} /\ DOMAIN f.seed = Joints

\* C1: in every solve, the working configuration of every iteration and the
\* joint angles of the returned result lie within the limits of the joint
\* limit table.
C1_WithinLimits ==
    \A f \in Frames :
        f.pc # "idle" =>
            /\ InLimits(f.working)
            /\ (Returning(f) /\ f.result.success) => InLimits(f.result.jointAngles)

\* a solve seeded near the J1 limit has taken a step that the clamp cut at the limit
C1_Witness ==
    \E f \in Frames :
        /\ f.pc = "ITERATING" /\ f.iter >= 1
        /\ f.seed = SeedNearLimit
        /\ f.working[1] = JOINT_LIMITS[1].max

\* C3: when a solve returns, converged or failed or rejected, the chain has
\* the joint values it had when the solve was called: no perturbed and no
\* working value is left in it.
C3_ChainRestored ==
    \A f \in Frames : Returning(f) => chain.angles = f.saved

\* a solve returns after its loop has perturbed the chain around a working
\* configuration that differs from the joint values of the chain at the call
C3_Witness ==
    \E f \in Frames :
        /\ Returning(f) /\ f.iter >= 1
        /\ f.working # f.saved
        /\ chain.angles = f.saved

\* C4: a loop that used up its iteration cap returns success = false with a
\* reason among OUT_OF_REACH, SINGULAR, DID_NOT_CONVERGE; a result with
\* success = true carries joint angles whose pose is within tolerance of the
\* target on every enabled axis.
C4_ExhaustionClassified ==
    \A f \in Frames :
        (Returning(f) /\ WellFormedInput(f)) =>
            /\ f.iter >= MaxIterations =>
                  /\ ~f.result.success
                  /\ f.pc = "FAILED"
                  /\ f.result.error.message \in
                         {"OUT_OF_REACH", "SINGULAR", "DID_NOT_CONVERGE"}
            /\ f.result.success =>
                  \A a \in Axes :
                      f.mask[a] =>
                          Abs(f.target[a] - ChainPose(f.result.jointAngles)[a])
                              <= IK_TOLERANCE

\* a solve has used up its cap and returns a classified failure
C4_Witness ==
    \E f \in Frames :
        /\ f.pc = "FAILED" /\ f.iter = MaxIterations
        /\ f.result.error.message = "DID_NOT_CONVERGE"

\* steps an activation can still take before it returns
StepsLeft(f) ==
    IF f.pc = "SEEDED" THEN 14 * MaxIterations + 1
    ELSE IF f.pc # "ITERATING" THEN 0
    ELSE IF f.phase = "reject" THEN 1
    ELSE 14 * (MaxIterations - f.iter)
         - (IF f.phase = "eval" THEN 0
            ELSE IF f.phase = "perturb" THEN 2 * f.pert - 1
            ELSE IF f.phase = "measure" THEN 2 * f.pert
            ELSE 13)

SolveTransitions ==
    { <<"idle", "SEEDED">>, <<"SEEDED", "ITERATING">>,
      <<"ITERATING", "CONVERGED">>, <<"ITERATING", "FAILED">>,
      <<"CONVERGED", "idle">>, <<"FAILED", "idle">> }

\* C5: every solve goes SEEDED -> ITERATING -> CONVERGED or FAILED(reason)
\* and back to its caller; it makes at most MaxIterations iterations, every
\* step it takes brings it closer to its terminal state, it can always take
\* its next step, and the terminal state carries the matching result.
C5_BoundedSolve ==
    /\ [][\A s \in Sites :
            LET f == solves[s]
                g == solves'[s]
            IN /\ f.pc # g.pc => <<f.pc, g.pc>> \in SolveTransitions
               /\ g.iter <= MaxIterations
               /\ (f # g /\ f.pc \in {"SEEDED", "ITERATING"}) =>
                      StepsLeft(g) < StepsLeft(f)
               /\ g.pc = "CONVERGED" => g.result.success
               /\ g.pc = "FAILED" =>
                      /\ ~g.result.success
                      /\ g.result.error.message \in
                             {"OUT_OF_REACH", "SINGULAR", "INVALID_INPUT",
                              "DID_NOT_CONVERGE"}]_vars
    /\ [](\A s \in Sites :
            solves[s].pc \in {"SEEDED", "ITERATING"} =>
                ENABLED (\/ StepSeeded(s) \/ StepReject(s) \/ StepEval(s)
                         \/ StepPerturb(s) \/ StepMeasure(s) \/ StepUpdate(s)))

\* a solve has converged in its second iteration or later
C5_Witness ==
    \E f \in Frames : f.pc = "CONVERGED" /\ f.iter >= 2

\* C6: at most one solve is in progress against the chain at any time.
C6_OneSolveAtATime ==
    Cardinality({s \in Sites : Active(s)}) <= 1

\* the Compute-IK timer callback is in the middle of a solve, the chain
\* holding a perturbed joint value, and no other site has started
C6_Witness ==
    /\ solves["timer"].pc = "ITERATING" /\ solves["timer"].phase = "measure"
    /\ chain.angles # solves["timer"].working
    /\ \A s \in Sites \ {"timer"} : ~Active(s)

\* C7: when the pose of the seed is within tolerance of the target on every
\* enabled axis, the solve returns success with zero iterations and the
\* seed (clamped to the limits) as joint angles, whatever the error on the
\* disabled axes.
C7_DisabledAxesIgnored ==
    \A f \in Frames :
        ( /\ Returning(f) /\ WellFormedInput(f)
          /\ \A a \in Axes :
                 f.mask[a] =>
                     Abs(f.target[a] - ChainPose(ClampToLimits(f.seed))[a])
                         <= IK_TOLERANCE )
        => /\ f.pc = "CONVERGED"
           /\ f.result.success
           /\ f.result.iterations = 0
           /\ f.result.jointAngles = ClampToLimits(f.seed)

\* position-only mask, target 40 degrees off in RZ: success with the seed at once
C7_Witness ==
    \E f \in Frames :
        /\ f.pc = "CONVERGED" /\ f.mask = PositionOnlyMask
        /\ f.seed = STANDBY_POSITION
        /\ Abs(f.target[6] - ChainPose(f.seed)[6]) > IK_TOLERANCE
        /\ f.result.iterations = 0
        /\ f.result.jointAngles = f.seed

\* C9: a solve whose target holds a non-finite value or whose seed lacks a
\* joint never evaluates a pose and returns FAILED with INVALID_INPUT and
\* zero iterations.
C9_InvalidInputRejected ==
    \A f \in Frames :
        (f.pc # "idle" /\ ~WellFormedInput(f)) =>
            /\ f.iter = 0
            /\ f.phase \in {"none", "reject"}
            /\ f.pc # "CONVERGED"
            /\ f.pc = "FAILED" =>
                  /\ ~f.result.success
                  /\ f.result.error.message = "INVALID_INPUT"
                  /\ f.result.iterations = 0

\* a target with NaN in X has been rejected
C9_Witness ==
    \E f \in Frames :
        /\ f.pc = "FAILED" /\ f.nonFinite # {}
        /\ f.result.error.message = "INVALID_INPUT"

\* C10: a solve with the seed, target and mask of the solve before it
\* returns the result of the solve before it, whatever happened in between.
C10_Deterministic ==
    \A f \in Frames :
        (Returning(f) /\ prev.has /\ prev.inputs = FrameInputs(f)) =>
            f.result = prev.result

\* the same inputs have been solved twice, with iterations, the chain
\* holding other joint values the second time
C10_Witness ==
    \E f \in Frames :
        /\ Returning(f) /\ prev.has /\ prev.inputs = FrameInputs(f)
        /\ f.result.iterations >= 1
        /\ f.saved = SeedNearLimit

----------------------------------------------------------------------------
(* Properties of the call sites *)

\* C2: a step of a call site whose solve failed changes neither the
\* commanded joint angles nor the chain; the commanded joint angles change
\* in such a step only when the solve succeeded.
C2_FailedSolveChangesNothing ==
    [][(lastSolve'.site # "none" /\ ~lastSolve'.success) =>
           (commanded' = commanded /\ chain' = chain)]_vars

\* a playback tick in cartesian mode has made a solve that failed, the
\* commanded joint angles being off the standby position
C2_Witness ==
    /\ lastSolve.site = "tick" /\ ~lastSolve.success
    /\ commanded # STANDBY_POSITION

IKResults == {frontendResult, backendResult} \ {NoResult}

\* C8: every IK result shown by the panel has joints exactly when success is
\* true and an error exactly when success is false.
C8_ResultShape ==
    \A r \in IKResults :
        /\ ("joints" \in DOMAIN r) <=> r.success
        /\ ("error" \in DOMAIN r) <=> ~r.success

\* the backend answered success without joints, and the frontend solve failed
C8_Witness ==
    /\ backendResult # NoResult /\ ~backendResult.success
    /\ backendResult.error = "IK solution failed"
    /\ frontendResult # NoResult /\ ~frontendResult.success

----------------------------------------------------------------------------
(* Properties of the pose extractor and its per-frame readers *)

\* C11: while the terminal link L6 of a robot does not resolve, the pose
\* extractor gives the unavailable value, and a frame of the reader of that
\* robot leaves the stored pose and the reader's last pose as they were.
C11_UnavailableSkipsFrame ==
    [][/\ (TargetTcpFrame /\ ~chain.l6) =>
              /\ ~calculateTcpPoseFromUrdf(chain).available
              /\ commandedTcpPose' = commandedTcpPose
              /\ lastPositionRef' = lastPositionRef
       /\ (ActualTcpFrame /\ ~actualRobot.l6 /\ hardwareJointAngles # <<>>) =>
              /\ ~calculateTcpPoseFromUrdf(actualRobot).available
              /\ actualTcpPosition' = actualTcpPosition
              /\ lastPositionRef' = lastPositionRef]_vars

\* the target robot has lost L6 after a frame stored a pose away from the
\* standby pose, and the stored pose is still there
C11_Witness ==
    /\ chain.loaded /\ ~chain.l6
    /\ commandedTcpPose.available
    /\ commandedTcpPose = lastPositionRef.target
    /\ commandedTcpPose.pose # threeJsToRobot(ChainPose(STANDBY_POSITION))

\* a frame of a reader that gets as far as the extractor call
ExtractorCall(robot) ==
    IF robot = "target" THEN TargetTcpFrame
    ELSE ActualTcpFrame /\ hardwareJointAngles # <<>>

\* C12 as stated: an extractor call leaves the joint values and the cached
\* transforms of the robot as they were.
C12_AsStated ==
    [][\A robot \in Robots :
          ExtractorCall(robot) =>
              /\ chain' = chain /\ actualRobot' = actualRobot
              /\ matrixWorld' = matrixWorld]_vars

\* C12: an extractor call leaves the joint values of both robots as they
\* were; the cached transforms of the robot it reads are afterwards those of
\* its joint values when L6 resolves and are untouched when it does not; the
\* cached transforms of the other robot are untouched.
C12_ReadRefreshesCache ==
    [][\A robot \in Robots :
          ExtractorCall(robot) =>
              LET ch == IF robot = "target" THEN chain ELSE actualRobot
              IN /\ chain' = chain /\ actualRobot' = actualRobot
                 /\ matrixWorld'[robot] =
                        (IF ch.l6 THEN ch.angles ELSE matrixWorld[robot])
                 /\ \A other \in Robots \ {robot} :
                        matrixWorld'[other] = matrixWorld[other]]_vars

\* a frame has stored the pose of joint values set after the last drawing:
\* the cached transforms of the target robot show the new joint values,
\* those of the ghost robot are still stale
C12_Witness ==
    /\ chain.loaded /\ chain.angles # STANDBY_POSITION
    /\ matrixWorld.target = chain.angles
    /\ commandedTcpPose.available
    /\ commandedTcpPose.pose = threeJsToRobot(ChainPose(chain.angles))
    /\ actualRobot.loaded /\ matrixWorld.actual # actualRobot.angles

----------------------------------------------------------------------------
(* The axis mask the stores start with *)

\* ikAxisMask as the store versions create it: all six axes, and the three
\* position axes only
StoreDefaultMasks == {FullMask, PositionOnlyMask}

InitAnyStore ==
    /\ solves = [s \in {"tick", "scrub", "key", "timer"} |-> IdleFrame]
    /\ chain = [loaded |-> FALSE, l6 |-> TRUE, angles |-> STANDBY_POSITION]
    /\ prev = [has |-> FALSE, inputs |-> <<>>, result |-> NoResult]
    /\ \E mask \in StoreDefaultMasks : InitStores(mask)

\* the timeline under either store version; no step changes the axis mask
SpecAnyStore == InitAnyStore /\ [][Next]_vars

\* C13 as stated: a solve made while the user has not changed the axis mask
\* runs with all six axes enabled.
C13_DefaultMaskFull ==
    [][lastSolve'.site # "none" => lastSolve'.mask = FullMask]_vars

----------------------------------------------------------------------------
(* Scenarios of the solver *)

\* {X: 1000000 mm, Y: 0, Z: 0, RX: 0, RY: 0, RZ: 0}
FarTarget == <<1000000000, 0, 0, 0, 0, 0>>

\* C14: a solve for the target {X: 1000000, 0, 0, 0, 0, 0} with a well-formed
\* seed never exceeds the iteration cap, never converges, and returns
\* success = false with reason OUT_OF_REACH after a number of iterations
\* within the cap, the chain being back at its joint values.
C14_FarTargetOutOfReach ==
    \A s \in Sites :
        LET f == solves[s]
        IN (f.pc # "idle" /\ f.target = FarTarget /\ WellFormedInput(f)) =>
               /\ f.iter <= MaxIterations
               /\ f.pc # "CONVERGED"
               /\ f.pc = "FAILED" =>
                      /\ ~f.result.success
                      /\ f.result.error.message = "OUT_OF_REACH"
                      /\ f.result.iterations <= MaxIterations
                      /\ f.result.finalError > IK_REACH_THRESHOLD
                      /\ chain.angles = f.saved

\* a solve for the far target, seeded from the standby position with the
\* full mask, has returned after using up the cap
C14_Witness ==
    \E f \in Frames :
        /\ f.pc = "FAILED" /\ f.target = FarTarget
        /\ f.seed = STANDBY_POSITION /\ f.mask = FullMask
        /\ f.iter = MaxIterations
        /\ f.result.error.message = "OUT_OF_REACH"

\* configurations within the limits whose poses are among the targets
RoundTripConfigs ==
    { STANDBY_POSITION,
      [STANDBY_POSITION EXCEPT ![5] = 10000000],
      [STANDBY_POSITION EXCEPT ![6] = 220000000],
      ConfigBelowWrist }

\* the pose of the seed is no further from the target on any axis than the
\* steps of all iterations but the last can cover
WithinCapReach(f) ==
    \A a \in Axes :
        Abs(f.target[a] - ChainPose(IKSeedWorking(f.seed))[a])
            <= (MaxIterations - 1) * IK_MAX_STEP_SIZE

\* C15: a solve with the full mask for the pose of a configuration within
\* the limits, seeded from a configuration whose pose is within the reach
\* of the iteration cap, converges; the pose of the joint angles it returns
\* matches the pose of the original configuration within tolerance on all
\* six axes, and the joint angles are within the limits.
C15_RoundTrip ==
    \A s \in Sites :
        LET f == solves[s]
        IN (/\ Returning(f) /\ WellFormedInput(f)
            /\ f.mask = FullMask
            /\ \E q \in RoundTripConfigs : InLimits(q) /\ f.target = ChainPose(q)
            /\ WithinCapReach(f)) =>
               /\ f.pc = "CONVERGED"
               /\ f.result.success
               /\ InLimits(f.result.jointAngles)
               /\ \A a \in Axes :
                      Abs(ChainPose(f.result.jointAngles)[a] - f.target[a])
                          <= IK_TOLERANCE

\* a round trip has returned after two iterations or more on joint angles
\* other than the original configuration, which have the same pose
C15_Witness ==
    \E f \in Frames :
        /\ f.pc = "CONVERGED" /\ f.mask = FullMask /\ WithinCapReach(f)
        /\ f.seed = SeedNearLimit
        /\ f.target = ChainPose(ConfigBelowWrist)
        /\ f.result.jointAngles # ConfigBelowWrist
        /\ f.iter >= 2

----------------------------------------------------------------------------
(* Properties of the control modes *)

\* C16: teach mode (targetFollowsActual) and live control
\* (actualFollowsTarget) are never both enabled, whatever setter calls were
\* made.
C16_ModesExclusive == ~(targetFollowsActual /\ actualFollowsTarget)

\* live control is on and teach mode is off while the commanded joint angles
\* are still the hardware feedback that teach mode mirrored
C16_Witness ==
    /\ actualFollowsTarget /\ ~targetFollowsActual
    /\ commanded \in HardwareSamples
    /\ liveFx.deps = LiveDeps

\* C17 as stated: in every reachable state every commanded joint angle lies
\* within the static limit of its joint.
C17_CommandedWithinLimits == InLimits(commanded)

\* C18 as stated: no motion command is sent while a playback runs, and once
\* live control has sent the joint angles to the robot, no further motion
\* command carries joint angles that a preview playback wrote.
C18_PreviewSendsNothing ==
    [][moveCommand' # moveCommand =>
           /\ ~playbackState.isPlaying
           /\ ~(/\ liveFx.lastSentAngles # <<>>
                /\ moveCommand'.angles = previewAngles)]_vars

----------------------------------------------------------------------------
(* Properties of recording *)

Ids(kfs) == {kfs[i].id : i \in 1..Len(kfs)}

\* the keyframes of new that old does not hold, in their order
Added(old, new) == SelectSeq(new, LAMBDA kf : kf.id \notin Ids(old))

\* the keyframes of new that old holds already, in their order
Kept(old, new) == SelectSeq(new, LAMBDA kf : kf.id \in Ids(old))

\* C19: a record adds exactly six keyframes, one for each of J1..J6 (in
\* cartesian mode one for each of X..RZ), all at the playhead's currentTime of
\* the moment of the call, and leaves every keyframe that existed as it was.
C19_RecordAddsSix ==
    [][handleRecord /\ timeline' # timeline =>
         /\ timeline.mode = "joint" =>
              LET old == timeline.keyframes
                  new == timeline'.keyframes
                  added == Added(old, new)
              IN /\ Len(new) = Len(old) + 6
                 /\ Len(added) = 6
                 /\ \A joint \in Joints :
                       Cardinality({i \in 1..6 : added[i].joint = joint}) = 1
                 /\ \A i \in 1..6 : added[i].time = playbackState.currentTime
                 /\ Kept(old, new) = old
                 /\ timeline'.cartesianKeyframes = timeline.cartesianKeyframes
         /\ timeline.mode = "cartesian" =>
              LET old == timeline.cartesianKeyframes
                  new == timeline'.cartesianKeyframes
                  added == Added(old, new)
              IN /\ Len(new) = Len(old) + 6
                 /\ Len(added) = 6
                 /\ \A axis \in Axes :
                       Cardinality({i \in 1..6 : added[i].axis = axis}) = 1
                 /\ \A i \in 1..6 : added[i].time = playbackState.currentTime
                 /\ Kept(old, new) = old
                 /\ timeline'.keyframes = timeline.keyframes]_vars

\* two records were made at the same playhead time: twelve joint keyframes,
\* J1 twice at one time
C19_Witness ==
    /\ timeline.mode = "joint"
    /\ Len(timeline.keyframes) = 12
    /\ \E i, j \in 1..12 :
          /\ i # j
          /\ timeline.keyframes[i].joint = 1
          /\ timeline.keyframes[j].joint = 1
          /\ timeline.keyframes[i].time = timeline.keyframes[j].time

\* C20: the values a record stores are the joint angles (in cartesian mode
\* the cartesian pose) that the caller passes as the argument: the commanded
\* state at the moment Record is pressed.
C20_RecordsArgument ==
    [][handleRecord /\ timeline' # timeline =>
         /\ timeline.mode = "joint" =>
              LET added == Added(timeline.keyframes, timeline'.keyframes)
              IN \A i \in 1..Len(added) :
                    added[i].value = commanded[added[i].joint]
         /\ timeline.mode = "cartesian" =>
              LET added == Added(timeline.cartesianKeyframes,
                                 timeline'.cartesianKeyframes)
              IN \A i \in 1..Len(added) :
                    added[i].value = commandedTcpPose.pose[added[i].axis]]_vars

----------------------------------------------------------------------------
(* Properties of the playback controls *)

\* C21: after stop() playback is not playing, currentTime is 0 and startTime is
\* null, whatever the playback state was before.
C21_StopResets ==
    [][stop => /\ ~playbackState'.isPlaying
               /\ playbackState'.currentTime = 0
               /\ ~playbackState'.hasStartTime]_vars

\* stop() was called in the middle of a playback: the interval of the playback
\* is still set, the timeline has not run out, the playhead was beyond 0
C21_Witness ==
    /\ playbackState = StoppedPlayback
    /\ playFx.on
    /\ now - playFx.startTime < playFx.duration
    /\ scrubFx[1] > 0

\* C22: pause() changes only isPlaying, to false, and leaves currentTime as it
\* was; a following play() resumes from that currentTime rather than from 0:
\* the time the playback loop counts from play() on starts at the playhead,
\* and every tick writes the time so counted.
C22_PauseKeepsPlayhead ==
    [][/\ pause => playbackState' = [playbackState EXCEPT !.isPlaying = FALSE]
       /\ (\E executeOnRobot \in BOOLEAN : play(executeOnRobot)) =>
             /\ playbackState'.currentTime = playbackState.currentTime
             /\ now - playbackState'.startTime = playbackState.currentTime
       /\ PlaybackTick /\ playbackState'.isPlaying =>
             /\ playbackState'.currentTime = now - playbackState.startTime
             /\ playbackState'.startTime = playbackState.startTime]_vars

\* play() was pressed on a paused playback whose playhead is beyond 0: the
\* effect of the playback last ran in the paused state
C22_Witness ==
    /\ playbackState.isPlaying
    /\ playFx.deps # <<>>
    /\ playFx.deps[1] = FALSE
    /\ playFx.deps[2] = TRUE
    /\ playbackState.currentTime > 0
    /\ now - playbackState.startTime = playbackState.currentTime

----------------------------------------------------------------------------
(* Properties of the hardware store *)

\* a message of the WebSocket wrote the feedback
SocketWrite == \E angles \in HardwareSamples : setHardwareJointAngles(angles)

\* C23 as stated: the state of the hardware store is written only by the
\* WebSocket data path; no component of the user interface and no user action
\* writes it.
C23_AsStated ==
    [][HardwareStore' # HardwareStore => SocketWrite]_vars

\* C23 as the code has it: the joint angles fed back by the hardware are written
\* only by the WebSocket data path; the reference to the ghost robot, which the
\* same store holds, is written by the load callback of RobotViewer.
C23_FeedbackOnlyFromSocket ==
    [][/\ hardwareJointAngles' # hardwareJointAngles => SocketWrite
       /\ HardwareStore'.hardwareRobotRef # HardwareStore.hardwareRobotRef =>
             LoadActualRobot]_vars

\* feedback arrived, the ghost robot is loaded and a joint slider was moved:
\* the store holds the feedback, not the slider's angles
C23_Witness ==
    /\ hardwareJointAngles \in HardwareSamples
    /\ HardwareStore.hardwareRobotRef
    /\ commanded # STANDBY_POSITION
    /\ commanded # hardwareJointAngles

----------------------------------------------------------------------------
(* Properties of the keyframe arrays *)

Sorted(kfs) == \A i \in 1..(Len(kfs) - 1) : kfs[i].time <= kfs[i + 1].time

\* C24: in every reachable state of the timeline store, after any sequence of
\* adding, updating, removing and recording keyframes, changes of the motion
\* mode and loads of a timeline, timeline.keyframes and
\* timeline.cartesianKeyframes are ordered by non-decreasing time.
C24_KeyframesSorted ==
    /\ Sorted(timeline.keyframes)
    /\ Sorted(timeline.cartesianKeyframes)

----------------------------------------------------------------------------
(* Properties of the move to the start position *)

\* C25: execute playback, play(true), is started by moveToStartAndPlay only at a
\* moment when every actual joint angle is within 0.1 degree of the timeline's
\* joint angles at t = 0.
C25_PlayOnlyAtStart ==
    [][/\ playbackState' # playbackState
       /\ playbackState'.isPlaying
       /\ playbackState'.executeOnRobot
       => /\ hardwareJointAngles # <<>>
          /\ isAtPosition(hardwareJointAngles,
                          getJointAnglesAtTime(timeline.keyframes, 0),
                          POSITION_TOLERANCE_DEGREES)]_vars

\* C26: each invocation of moveToStartAndPlay that starts polling has one
\* outcome only (arrival, timeout or loss of connection), and once it has
\* occurred the poll interval and the timeout timer of the invocation are
\* cleared and isMovingToStart is false.
C26_OneOutcome ==
    [][\A k \in 1..MaxCalls :
          /\ Len(prePlay'.calls[k].outcomes) <= 1
          /\ prePlay'.calls[k].outcomes # prePlay.calls[k].outcomes =>
                /\ ~prePlay'.calls[k].poll
                /\ ~prePlay'.calls[k].timeout
                /\ ~prePlay'.isMovingToStart]_vars

\* C27: at most one poll interval and one timeout timer exist at any time, and
\* no invocation calls play(true) more than once, also when moveToStartAndPlay
\* is invoked again while an earlier invocation is moving or polling.
C27_OneTimerOnePlay ==
    /\ Cardinality({k \in 1..MaxCalls : prePlay.calls[k].poll}) <= 1
    /\ Cardinality({k \in 1..MaxCalls : prePlay.calls[k].timeout}) <= 1
    /\ \A k \in 1..MaxCalls :
          Len(SelectSeq(prePlay.calls[k].outcomes, LAMBDA o : o = "arrived")) <= 1

----------------------------------------------------------------------------
(* Properties of live control *)

\* C28: no move command of live control is sent while live control is
\* disabled or while playback is playing, also not one that was scheduled
\* before the mode was disabled or the playback started.
C28_NoSendWhenOffOrPlaying ==
    [][moveCommand' # moveCommand =>
          /\ actualFollowsTarget
          /\ ~playbackState.isPlaying]_vars

\* a send is scheduled and playback has just started: the timer is still set
C28_Witness ==
    /\ liveFx.pending
    /\ actualFollowsTarget
    /\ playbackState.isPlaying

\* C29: in live control a move command is sent only after the target joint
\* angles have stayed unchanged for 500 ms: the timer that fires was set when
\* the angles changed last, at least the delay ago; a change within the
\* window cancels the pending send, so a burst of changes yields one command
\* at most, and it carries the latest angles.
C29_Debounced ==
    [][/\ moveCommand' # moveCommand =>
             /\ liveFx.pending
             /\ now >= liveFx.setAt + DebounceTicks
             /\ moveCommand'.angles = commanded
             /\ ~liveFx'.pending
       /\ commanded' # commanded => moveCommand' = moveCommand
       /\ LiveEffect /\ liveFx.pending =>
             /\ liveFx'.pending => liveFx'.setAt = now /\ liveFx'.angles = commanded
             /\ ~liveFx'.pending => liveFx'.angles = <<>>]_vars

\* a burst: a send of J1 = 60 is scheduled and, within its window, the slider
\* has moved on to J1 = 120
C29_Witness ==
    /\ actualFollowsTarget
    /\ liveFx.pending
    /\ liveFx.angles # <<>>
    /\ liveFx.angles[1] = 60000000
    /\ commanded[1] = 120000000
    /\ now < liveFx.setAt + DebounceTicks

----------------------------------------------------------------------------
(* Properties of playback and scrubbing together *)

\* C30: the scrubbing effect never writes joint angles or the cartesian pose
\* while playback is playing, so at any moment at most one of the playback
\* loop and the scrubbing effect writes the commanded joint angles: a tick of
\* the loop writes only while playback is playing.
C30_OneWriter ==
    [][/\ playbackState.isPlaying
          /\ (commanded' # commanded \/ inputPose' # inputPose) => ~ScrubEffect
       /\ ~playbackState.isPlaying
          /\ (commanded' # commanded \/ inputPose' # inputPose) => ~PlaybackTick]_vars

\* the playhead was dragged during a playback: the scrubbing effect has run
\* for the new time and the joint angles are not the ones of that time
C30_Witness ==
    /\ playbackState.isPlaying
    /\ scrubFx = ScrubbingDeps
    /\ timeline.mode = "joint"
    /\ commanded # getJointAnglesAtTime(timeline.keyframes, playbackState.currentTime)

----------------------------------------------------------------------------
(* Properties of the playback loop *)

\* C31: after pause() or stop() has taken effect (the usePlayback effect has
\* run for the new state), no interval is left, and no tick of the playback
\* loop writes currentTime or the joint angles until play() is called again:
\* every step taken while playback is not playing that changes one of them
\* is not a tick.
C31_NoTickAfterPause ==
    [][/\ ~playbackState.isPlaying /\ playFx.deps = PlaybackDeps => ~playFx.on
       /\ ~playbackState.isPlaying
          /\ (playbackState'.currentTime # playbackState.currentTime
              \/ commanded' # commanded) => ~PlaybackTick]_vars

\* a playback paused in its middle, the effect has run: the start time is
\* kept by pause(), the clock has passed the playhead, no interval is left
C31_Witness ==
    /\ ~playbackState.isPlaying
    /\ playbackState.hasStartTime
    /\ playFx.deps = PlaybackDeps
    /\ ~playFx.on
    /\ now - playbackState.startTime > playbackState.currentTime

\* C32: once playback has started and no further user action occurs, it
\* eventually ends by itself, not playing, with currentTime 0 and no start
\* time; and every tick at which the elapsed time has reached the duration
\* of the timeline stops the playback.
C32_EndsByItself ==
    /\ playbackState.isPlaying ~>
          (/\ ~playbackState.isPlaying
           /\ playbackState.currentTime = 0
           /\ ~playbackState.hasStartTime)
    /\ [][now - playFx.startTime >= playFx.duration /\ PlaybackTick =>
             playbackState' = StoppedPlayback]_vars

\* a playback in its middle: the interval is set and has moved the playhead
C32_Witness ==
    /\ playbackState.isPlaying
    /\ playFx.on
    /\ playbackState.currentTime > 0
    /\ playbackState.currentTime = now - playFx.startTime
    /\ now - playFx.startTime < playFx.duration

----------------------------------------------------------------------------
(* Properties of the mode switch *)

\* C33: after setMotionMode(m) the mode of the timeline is m, the keyframe
\* list of the other mode is empty, the keyframe list of mode m is unchanged,
\* and playback is stopped with currentTime 0 and no start time.
C33_ModeSwitch ==
    [][\A m \in {"joint", "cartesian"} :
          timeline'.mode = m /\ setMotionMode(m) =>
             /\ m = "joint" =>
                   /\ timeline'.keyframes = timeline.keyframes
                   /\ timeline'.cartesianKeyframes = <<>>
             /\ m = "cartesian" =>
                   /\ timeline'.cartesianKeyframes = timeline.cartesianKeyframes
                   /\ timeline'.keyframes = <<>>
             /\ ~playbackState'.isPlaying
             /\ playbackState'.currentTime = 0
             /\ ~playbackState'.hasStartTime]_vars

\* the mode was switched to cartesian during a joint playback of a file with
\* keyframes of both modes: the interval of that playback is still set
C33_Witness ==
    /\ timeline.mode = "cartesian"
    /\ timeline.keyframes = <<>>
    /\ timeline.cartesianKeyframes # <<>>
    /\ playFx.on
    /\ playFx.mode = "joint"
    /\ playFx.keyframes # <<>>
    /\ playFx.cartesianKeyframes = timeline.cartesianKeyframes
    /\ playbackState = StoppedPlayback

----------------------------------------------------------------------------
(* Properties of the keyboard steps *)

\* C34: when the IK solve for a keyboard cartesian step fails, the input
\* cartesian pose is set back to the last pose for which IK succeeded (where
\* the model tracks it: a solve of the keyboard handler or of the Compute IK
\* timer came last among the solves that succeeded) and the commanded joint
\* angles are left unchanged.
C34_RevertsToLastSolved ==
    [][lastSolve'.site = "key" /\ ~lastSolve'.success =>
          /\ commanded' = commanded
          /\ solvedPose # <<>> => inputPose' = solvedPose]_vars

----------------------------------------------------------------------------
(* Properties of the seed of the playback solves *)

\* C35: during cartesian playback each tick's IK solve is seeded with the
\* most recently committed joint configuration: whenever a tick makes a
\* solve, the joint angles its closure hands to the solver as seed
\* (currentJointAngles of the interval) are the commanded joint angles of
\* that moment.
C35_TickSeedIsCommitted ==
    [][lastSolve'.site = "tick" /\ PlaybackTick =>
          playFx.currentJointAngles = commanded]_vars

====
